---- MODULE Spec2Model ----
(***************************************************************************)
(* docpilot core: the structural parser (core/parser.py), the element      *)
(* model (core/models.py) and the code analyzer (core/analyzer.py) as a    *)
(* state machine.  A source file is a syntax tree (the value ast.parse     *)
(* returns); parse_file turns it into a ParseResult of CodeElements and    *)
(* the analyzer mutates those elements in place.                           *)
(*                                                                         *)
(* Text is modelled as sequences of one-character strings, so that         *)
(* startswith, "in" and lower() are computed and not assumed.  An optional *)
(* value (None or v) is the sequence <<>> or <<v>>.  A float of            *)
(* pattern_confidence is held in hundredths (0.15 is 15).                  *)
(***************************************************************************)
EXTENDS Integers, Sequences, FiniteSets, TLC

VARIABLES
    source,           \* the file on disk: "ok", "missing", "undecodable", "syntax_error"
    raised,           \* the exception the last call let through to the caller, if any
    file,             \* the syntax tree of the source file on disk
    extract_private,  \* PythonParser.extract_private of the caller's parser
    result,           \* the ParseResult the caller holds (<<>> before any parse)
    parsed_private,   \* extract_private of the parser that produced result
    analyzer,         \* the flags of the caller's CodeAnalyzer
    lastOp,           \* the last operation called and the element it was given
    call,             \* a call of a function of the engine that keeps no state
    returned,         \* what that call returned (<<>> before it returns)
    files,            \* the directory FileOperations works in: name -> content, if any
    file_ops,         \* the caller's FileOperations: backup_suffix, dry_run
    since_backup,     \* per file: its content at the last backup_file, while only
                      \* the file itself has been modified since (not in the code)
    server            \* the DocpilotLSPServer: its fields, its stdin, where start() is

vars == <<source, raised, file, extract_private, result, parsed_private, analyzer, lastOp,
          call, returned, files, file_ops, since_backup,
          server>>

Disk == <<files, file_ops, since_backup>>

None == <<>>
Some(v) == <<v>>
IsNone(o) == o = <<>>
Get(o) == o[1]

\* ------------------------------------------------------------------ text

s_self == <<"s", "e", "l", "f">>
s_cls == <<"c", "l", "s">>
s_process_data == <<"p", "r", "o", "c", "e", "s", "s", "_", "d", "a", "t", "a">>
s_get_x == <<"g", "e", "t", "_", "x">>
s_make_x == <<"m", "a", "k", "e", "_", "x">>
s_Make_x == <<"M", "a", "k", "e", "_", "x">>
s_validate_x == <<"v", "a", "l", "i", "d", "a", "t", "e", "_", "x">>
s_create_x == <<"c", "r", "e", "a", "t", "e", "_", "x">>
s__helper == <<"_", "h", "e", "l", "p", "e", "r">>
s_run == <<"r", "u", "n">>
s__run == <<"_", "r", "u", "n">>
s___iter__ == <<"_", "_", "i", "t", "e", "r", "_", "_">>
s_execute == <<"e", "x", "e", "c", "u", "t", "e">>
s_value == <<"v", "a", "l", "u", "e">>
s_Plain == <<"P", "l", "a", "i", "n">>
s_UserFactory == <<"U", "s", "e", "r", "F", "a", "c", "t", "o", "r", "y">>
s__Hidden == <<"_", "H", "i", "d", "d", "e", "n">>
s_property == <<"p", "r", "o", "p", "e", "r", "t", "y">>
s_validate_args == <<"v", "a", "l", "i", "d", "a", "t", "e", "_", "a", "r", "g", "s">>
s_contextmanager == <<"c", "o", "n", "t", "e", "x", "t", "m", "a", "n", "a", "g", "e", "r">>
s_staticmethod == <<"s", "t", "a", "t", "i", "c", "m", "e", "t", "h", "o", "d">>
s_classmethod == <<"c", "l", "a", "s", "s", "m", "e", "t", "h", "o", "d">>
s_lru_cache == <<"l", "r", "u", "_", "c", "a", "c", "h", "e">>
s_cached_property == <<"c", "a", "c", "h", "e", "d", "_", "p", "r", "o", "p", "e", "r", "t", "y">>
s_abstractmethod == <<"a", "b", "s", "t", "r", "a", "c", "t", "m", "e", "t", "h", "o", "d">>
s_abc_abstractmethod == <<"a", "b", "c", ".", "a", "b", "s", "t", "r", "a", "c", "t", "m", "e", "t", "h", "o", "d">>
s_validate == <<"v", "a", "l", "i", "d", "a", "t", "e">>
s_factory == <<"f", "a", "c", "t", "o", "r", "y">>
s_creator == <<"c", "r", "e", "a", "t", "o", "r">>
s_strategy == <<"s", "t", "r", "a", "t", "e", "g", "y">>
s_algorithm == <<"a", "l", "g", "o", "r", "i", "t", "h", "m">>
s_wrapper == <<"w", "r", "a", "p", "p", "e", "r">>
s_adapter == <<"a", "d", "a", "p", "t", "e", "r">>

s___new__ == <<"_", "_", "n", "e", "w", "_", "_">>
s_instance == <<"i", "n", "s", "t", "a", "n", "c", "e">>
s_return_sp == <<"r", "e", "t", "u", "r", "n", " ">>
s_subscribe == <<"s", "u", "b", "s", "c", "r", "i", "b", "e">>
s_notify == <<"n", "o", "t", "i", "f", "y">>
s_observer == <<"o", "b", "s", "e", "r", "v", "e", "r">>
s_listener == <<"l", "i", "s", "t", "e", "n", "e", "r">>
s___next__ == <<"_", "_", "n", "e", "x", "t", "_", "_">>
s___enter__ == <<"_", "_", "e", "n", "t", "e", "r", "_", "_">>
s___exit__ == <<"_", "_", "e", "x", "i", "t", "_", "_">>
s___get__ == <<"_", "_", "g", "e", "t", "_", "_">>
s___set__ == <<"_", "_", "s", "e", "t", "_", "_">>
s_raise_NotImplementedError == <<"r", "a", "i", "s", "e", " ", "N", "o", "t", "I", "m", "p", "l", "e", "m", "e", "n", "t", "e", "d", "E", "r", "r", "o", "r">>
s_append == <<"a", "p", "p", "e", "n", "d">>
s_extend == <<"e", "x", "t", "e", "n", "d">>
s_pop == <<"p", "o", "p">>
s_add == <<"a", "d", "d">>
s_remove == <<"r", "e", "m", "o", "v", "e">>
s_discard == <<"d", "i", "s", "c", "a", "r", "d">>
s_keys == <<"k", "e", "y", "s">>
s_values == <<"v", "a", "l", "u", "e", "s">>
s_items == <<"i", "t", "e", "m", "s">>
s_get == <<"g", "e", "t">>
s_strip == <<"s", "t", "r", "i", "p">>
s_split == <<"s", "p", "l", "i", "t">>
s_join == <<"j", "o", "i", "n">>
s_lower == <<"l", "o", "w", "e", "r">>
s_upper == <<"u", "p", "p", "e", "r">>
s_get_ == <<"g", "e", "t", "_">>
s_fetch_ == <<"f", "e", "t", "c", "h", "_">>
s_retrieve_ == <<"r", "e", "t", "r", "i", "e", "v", "e", "_">>
s_set_ == <<"s", "e", "t", "_">>
s_update_ == <<"u", "p", "d", "a", "t", "e", "_">>
s_create_ == <<"c", "r", "e", "a", "t", "e", "_">>
s_add_ == <<"a", "d", "d", "_">>
s_delete_ == <<"d", "e", "l", "e", "t", "e", "_">>
s_remove_ == <<"r", "e", "m", "o", "v", "e", "_">>
s_is_ == <<"i", "s", "_">>
s_has_ == <<"h", "a", "s", "_">>
s_can_ == <<"c", "a", "n", "_">>
s_make_ == <<"m", "a", "k", "e", "_">>
s_build_ == <<"b", "u", "i", "l", "d", "_">>
s_validate_ == <<"v", "a", "l", "i", "d", "a", "t", "e", "_">>
s_serialize_ == <<"s", "e", "r", "i", "a", "l", "i", "z", "e", "_">>
s_deserialize_ == <<"d", "e", "s", "e", "r", "i", "a", "l", "i", "z", "e", "_">>
s_parse_ == <<"p", "a", "r", "s", "e", "_">>
s_format_ == <<"f", "o", "r", "m", "a", "t", "_">>
s_a == <<"a">>
s_b == <<"b">>
s_c == <<"c">>
s_d == <<"d">>
s_e == <<"e">>
s_f == <<"f">>
s_g == <<"g">>
s_h == <<"h">>
s_bak == <<".", "b", "a", "k">>
s_data == <<"d", "a", "t", "a">>

\* str.startswith(prefix)
StartsWith(s, prefix) ==
    /\ Len(prefix) <= Len(s)
    /\ SubSeq(s, 1, Len(prefix)) = prefix

\* str.startswith((p1, p2, ...)): a tuple of prefixes
StartsWithAny(s, prefixes) == \E p \in prefixes : StartsWith(s, p)

\* sub in s
Contains(s, sub) ==
    \E i \in 1..(Len(s) - Len(sub) + 1) : SubSeq(s, i, i + Len(sub) - 1) = sub

UpperCase == <<"A", "B", "C", "D", "E", "F", "G", "H", "I", "J", "K", "L", "M",
               "N", "O", "P", "Q", "R", "S", "T", "U", "V", "W", "X", "Y", "Z">>
LowerCase == <<"a", "b", "c", "d", "e", "f", "g", "h", "i", "j", "k", "l", "m",
               "n", "o", "p", "q", "r", "s", "t", "u", "v", "w", "x", "y", "z">>

\* str.lower()
Lower(s) ==
    [i \in 1..Len(s) |->
        IF \E k \in 1..Len(UpperCase) : UpperCase[k] = s[i]
        THEN LowerCase[CHOOSE k \in 1..Len(UpperCase) : UpperCase[k] = s[i]]
        ELSE s[i]]

RECURSIVE SumSeq(_)
SumSeq(s) == IF s = <<>> THEN 0 ELSE Head(s) + SumSeq(Tail(s))

Range(s) == {s[i] : i \in 1..Len(s)}

Min(a, b) == IF a <= b THEN a ELSE b
Max(a, b) == IF a >= b THEN a ELSE b

\* ------------------------------------------------- the syntax tree (input)
\* ast.arg
Arg(name, annotation) == [arg |-> name, annotation |-> annotation]

\* ast.arguments
Arguments(posonly, args, defaults, vararg, kwonly, kw_defaults, kwarg) ==
    [posonlyargs |-> posonly, args |-> args, defaults |-> defaults,
     vararg |-> vararg, kwonlyargs |-> kwonly, kw_defaults |-> kw_defaults,
     kwarg |-> kwarg]

\* What the analyzer reads of a function body.  text: the marker substrings
\* the body's source text holds (lower-cased where the code lower-cases);
\* lines: the lines of ast.unparse(node); literals: the numeric literal
\* tokens of the text, integers and floats, each as its text; branches: If/While/For/AsyncFor/ExceptHandler nodes;
\* boolops: the operand count of each BoolOp; comp_ifs: the ifs of the
\* comprehensions; nested_defs: the "def" lines nested in the body;
\* usage: the Compare-with-None and obj.method() nodes, in ast.walk order;
\* too_deep: an expression of the body is nested deeper than the recursion
\* limit lets ast.unparse descend, so that ast.unparse raises RecursionError;
\* raise_stmts: the raise statements of the body, in the order of the text.
Body(text, lines, literals, branches, boolops, comp_ifs, yields, nested_defs, usage) ==
    [text |-> text, lines |-> lines, literals |-> literals, branches |-> branches,
     boolops |-> boolops, comp_ifs |-> comp_ifs, yields |-> yields,
     nested_defs |-> nested_defs, usage |-> usage, too_deep |-> FALSE,
     raise_stmts |-> << >>]

\* ast.Raise.  form: "bare" (raise), "name" (raise E), "call_name"
\* (raise E(...)), "call_attr" (raise m.E(...)), "attr" (raise m.E);
\* name: the text of the exception expression; depth: how many nodes the
\* statement is below the function node (1: a statement of the body itself)
Raise(form, name, depth) == [form |-> form, name |-> name, depth |-> depth]

\* ast.FunctionDef / ast.AsyncFunctionDef; docstring: the text of the string
\* constant that is the first statement of the body, None without one
FunctionDef(kind, name, decorator_list, args, returns, body) ==
    [node |-> kind, name |-> name, decorator_list |-> decorator_list,
     args |-> args, returns |-> returns, body |-> body, docstring |-> None]

\* ast.ClassDef; body: the FunctionDef / AsyncFunctionDef statements of the
\* class body, text: the markers of the rest of the class text
ClassDef(name, decorator_list, body, text) ==
    [node |-> "ClassDef", name |-> name, decorator_list |-> decorator_list,
     body |-> body, text |-> text, docstring |-> None]

\* ------------------------------------------------------------ models.py
FUNCTION == "function"
METHOD == "method"
PROPERTY == "property"
CLASS == "class"

ParameterInfo(name, type_hint, default_value, is_required, is_variadic, is_keyword) ==
    [name |-> name, type_hint |-> type_hint, default_value |-> default_value,
     is_required |-> is_required, is_variadic |-> is_variadic,
     is_keyword |-> is_keyword, inferred_type |-> None,
     type_inference_confidence |-> None]

\* ParameterInfo.effective_type: self.type_hint or self.inferred_type
effective_type(p) == IF ~IsNone(p.type_hint) THEN p.type_hint ELSE p.inferred_type

ReturnInfo(type_hint, is_generator, is_async) ==
    [type_hint |-> type_hint, is_generator |-> is_generator, is_async |-> is_async,
     inferred_type |-> None]

\* dict(): the metadata keys the analyzer writes, each absent (None) or set
\* malformed: the keys a caller of the engine has given a value that is no number
EmptyMetadata ==
    [patterns |-> None, inferred_types |-> << >>, method_count |-> None,
     property_count |-> None, parameter_count |-> None, malformed |-> {}]

\* CodeElement(...) with the defaults of the analysis fields; analysed is
\* not a field of the class: it records whether _analyze_element has been
\* called on the element
CodeElement(name, element_type, source_code, parent_class, is_public, is_async, is_property, parameters, return_info, decorators) ==
    [name |-> name, element_type |-> element_type, source_code |-> source_code,
     parent_class |-> parent_class, is_public |-> is_public, is_async |-> is_async,
     is_property |-> is_property, parameters |-> parameters,
     return_info |-> return_info, decorators |-> decorators,
     methods |-> << >>,
     complexity_score |-> None, detected_patterns |-> << >>,
     pattern_confidence |-> 0, suggestions |-> << >>,
     metadata |-> EmptyMetadata, analysed |-> FALSE, raises |-> << >>,
     docstring |-> None]

\* CodeElement.has_docstring with the test "is the docstring truthy"
HasDocstringWhenNotEmpty(element) ==
    ~IsNone(element.docstring) /\ Get(element.docstring) # << >>

\* CodeElement.has_docstring: self.docstring is not None
HasDocstring(element) == ~IsNone(element.docstring)

\* ------------------------------------------------------------- parser.py
\* inspect.cleandoc of a text of one line: the blanks before it go, and a
\* line that is empty then goes whole
RECURSIVE Cleandoc(_)
Cleandoc(text) ==
    IF text # << >> /\ Head(text) = " " THEN Cleandoc(Tail(text)) ELSE text

\* ast.get_docstring(node): None without a docstring statement, else its
\* cleaned text, which can be empty
GetDocstring(node) ==
    IF IsNone(node.docstring) THEN None ELSE Some(Cleandoc(Get(node.docstring)))

\* is_public=not node.name.startswith("_")
IsPublicName(name) == ~StartsWith(name, <<"_">>)

\* PythonParser._parse_parameters
ParseParameters(args) ==
    LET defaults_offset == Len(args.args) - Len(args.defaults)
        Positional(i) ==
            LET default_idx == i - defaults_offset   \* 1-based: i >= offset + 1
                has_default == default_idx >= 1 /\ default_idx <= Len(args.defaults)
            IN  ParameterInfo(args.args[i].arg, args.args[i].annotation,
                    IF has_default THEN Some(args.defaults[default_idx]) ELSE None,
                    ~has_default, FALSE, FALSE)
        positional == [i \in 1..Len(args.args) |-> Positional(i)]
        variadic ==
            IF IsNone(args.vararg) THEN << >>
            ELSE <<ParameterInfo(Get(args.vararg).arg, Get(args.vararg).annotation,
                                 None, FALSE, TRUE, FALSE)>>
        \* kw_defaults_map: zip(kwonlyargs, kw_defaults), keyed by name; a later
        \* pair of the same name replaces an earlier one
        KwIdx(name) ==
            {k \in 1..Min(Len(args.kwonlyargs), Len(args.kw_defaults)) :
                /\ args.kwonlyargs[k].arg = name
                /\ ~IsNone(args.kw_defaults[k])}
        LastIdx(S) == CHOOSE k \in S : \A j \in S : j <= k
        KeywordOnly(i) ==
            LET name == args.kwonlyargs[i].arg
                has_default == KwIdx(name) # {}
            IN  ParameterInfo(name, args.kwonlyargs[i].annotation,
                    IF has_default
                    THEN Some(Get(args.kw_defaults[LastIdx(KwIdx(name))]))
                    ELSE None,
                    ~has_default, FALSE, FALSE)
        keyword_only == [i \in 1..Len(args.kwonlyargs) |-> KeywordOnly(i)]
        keyword ==
            IF IsNone(args.kwarg) THEN << >>
            ELSE <<ParameterInfo(Get(args.kwarg).arg, Get(args.kwarg).annotation,
                                 None, FALSE, FALSE, TRUE)>>
    IN  positional \o variadic \o keyword_only \o keyword

\* PythonParser._parse_return
ParseReturn(node, is_async) ==
    LET type_hint == node.returns
        is_generator == node.body.yields
    IN  IF ~IsNone(type_hint) \/ is_generator \/ is_async
        THEN Some(ReturnInfo(type_hint, is_generator, is_async))
        ELSE None

\* PythonParser._parse_decorator: DecoratorInfo.name of a bare-name decorator
ParseDecorator(dec) == dec

\* ------------------------------------------------------- source text
\* The substrings the analyzer looks for in element.source_code with
\* "in": CaseMarkers in source_code itself, LowerMarkers in its lower()
CaseMarkers ==
    {s___new__, s___iter__, s___next__, s___enter__, s___exit__, s___get__,
     s___set__, s_raise_NotImplementedError}
LowerMarkers ==
    {s_instance, s_return_sp, s_subscribe, s_notify, s_observer, s_listener,
     s_execute}

\* the markers an identifier written in the text brings with it
NameMarkers(name) ==
    {m \in CaseMarkers : Contains(name, m)}
        \cup {m \in LowerMarkers : Contains(Lower(name), m)}

\* ast.unparse(node) of a function: what the analyzer's searches find in it
FunctionSource(node) ==
    [markers |-> node.body.text \cup NameMarkers(node.name),
     lines |-> node.body.lines,
     literals |-> node.body.literals,
     branches |-> node.body.branches,
     boolops |-> node.body.boolops,
     comp_ifs |-> node.body.comp_ifs,
     \* matches of \n\s+def\s+ : the indented "def" lines ("async def" is no match)
     defs |-> node.body.nested_defs,
     \* matches of \n\s+@property
     props |-> 0,
     usage |-> node.body.usage]

IsFunctionNode(item) == item.node \in {"FunctionDef", "AsyncFunctionDef"}

\* ast.unparse(node) of a class: the text of the class and of all its members
ClassSource(node) ==
    LET members == SelectSeq(node.body, IsFunctionNode)
        Defs(i) == (IF members[i].node = "FunctionDef" THEN 1 ELSE 0)
                       + members[i].body.nested_defs
        Props(i) == IF s_property \in Range(members[i].decorator_list) THEN 1 ELSE 0
    IN  [markers |-> node.text \cup NameMarkers(node.name)
                        \cup UNION {FunctionSource(members[i]).markers :
                                        i \in 1..Len(members)},
         lines |-> 1 + SumSeq([i \in 1..Len(members) |-> members[i].body.lines]),
         literals |-> << >>,
         branches |-> 0,
         boolops |-> << >>,
         comp_ifs |-> 0,
         defs |-> SumSeq([i \in 1..Len(members) |-> Defs(i)]),
         props |-> SumSeq([i \in 1..Len(members) |-> Props(i)]),
         usage |-> << >>]

\* ast.walk(node) is breadth-first: the raise statements by depth, those of
\* one depth in the order of the text
RECURSIVE WalkOrderFrom(_, _)
WalkOrderFrom(stmts, depth) ==
    LET AtDepth(r) == r.depth = depth
        Deeper(r) == r.depth > depth
    IN  IF stmts = << >> THEN << >>
        ELSE SelectSeq(stmts, AtDepth)
                 \o WalkOrderFrom(SelectSeq(stmts, Deeper), depth + 1)

WalkOrder(stmts) == WalkOrderFrom(stmts, 1)

\* exc_type of one raise statement, None when the code finds none
ExceptionType(r) ==
    IF r.form \in {"call_name", "call_attr", "name"} THEN Some(r.name) ELSE None

\* the loop of _extract_exceptions over the first n statements of the walk
RECURSIVE ExceptionsOf(_, _)
ExceptionsOf(walk, n) ==
    IF n = 0 THEN << >>
    ELSE LET before == ExceptionsOf(walk, n - 1)
             exc_type == ExceptionType(walk[n])
         IN  IF ~IsNone(exc_type) /\ Get(exc_type) \notin Range(before)
             THEN Append(before, Get(exc_type))
             ELSE before

\* the same loop over the statements in the order of the text
ExtractExceptionsTextOrder(node) ==
    ExceptionsOf(node.body.raise_stmts, Len(node.body.raise_stmts))

\* PythonParser._extract_exceptions: the exception_type of each ExceptionInfo
ExtractExceptions(node) ==
    ExceptionsOf(WalkOrder(node.body.raise_stmts), Len(node.body.raise_stmts))

\* PythonParser._parse_function
ParseFunction(node, parent_class, is_async) ==
    LET parameters == ParseParameters(node.args)
        return_info == ParseReturn(node, is_async)
        decorators == [i \in 1..Len(node.decorator_list) |->
                          ParseDecorator(node.decorator_list[i])]
        is_property == s_property \in Range(decorators)
        element_type ==
            IF ~IsNone(parent_class)
            THEN (IF is_property THEN PROPERTY ELSE METHOD)
            ELSE FUNCTION
    IN  [CodeElement(node.name, element_type, FunctionSource(node), parent_class,
                     IsPublicName(node.name), is_async, is_property, parameters,
                     return_info, decorators)
            EXCEPT !.raises = ExtractExceptions(node),
                   !.docstring = GetDocstring(node)]

\* the method elements _parse_class collects: every function of the class
\* body, whatever its name
ParseMethods(node) ==
    LET members == SelectSeq(node.body, IsFunctionNode)
    IN  [i \in 1..Len(members) |->
            ParseFunction(members[i], Some(node.name),
                          members[i].node = "AsyncFunctionDef")]

\* the class element followed by its methods in the one flat list
ParseClassFlat(node) ==
    LET decorators == [i \in 1..Len(node.decorator_list) |->
                          ParseDecorator(node.decorator_list[i])]
        class_element ==
            [CodeElement(node.name, CLASS, ClassSource(node), None,
                         IsPublicName(node.name), FALSE, FALSE, << >>, None,
                         decorators)
                EXCEPT !.methods = ParseMethods(node)]
    IN  <<class_element>> \o ParseMethods(node)

\* PythonParser._parse_class: the list holds the class element alone; its
\* methods are in class_element._methods
ParseClass(node) ==
    LET decorators == [i \in 1..Len(node.decorator_list) |->
                          ParseDecorator(node.decorator_list[i])]
        class_element ==
            [CodeElement(node.name, CLASS, ClassSource(node), None,
                         IsPublicName(node.name), FALSE, FALSE, << >>, None,
                         decorators)
                EXCEPT !.methods = ParseMethods(node),
                       !.docstring = GetDocstring(node)]
    IN  <<class_element>>

\* ast.unparse(node) raises: of a function when its body is too deep, of a
\* class when the body of one of its functions is, since _parse_class parses
\* the functions of the class body with no handler of its own
UnparseRaises(node) ==
    IF node.node \in {"FunctionDef", "AsyncFunctionDef"} THEN node.body.too_deep
    ELSE IF node.node = "ClassDef"
    THEN \E j \in 1..Len(node.body) : node.body[j].body.too_deep
    ELSE FALSE

\* f"Error parsing {getattr(node, 'name', 'unknown')}: {e}"
ParseError(node) == [name |-> node.name, cause |-> "RecursionError"]

NoElements == [elements |-> << >>, parse_errors |-> << >>]

\* one pass of the loop of parse_file over the module-level nodes: what it
\* appends to elements and to parse_errors
ParseNode(node, private) ==
    IF UnparseRaises(node)
    THEN [NoElements EXCEPT !.parse_errors = <<ParseError(node)>>]
    ELSE IF node.node \in {"FunctionDef", "AsyncFunctionDef"}
    THEN LET element == ParseFunction(node, None, node.node = "AsyncFunctionDef")
         IN  IF private \/ element.is_public
             THEN [NoElements EXCEPT !.elements = <<element>>]
             ELSE NoElements
    ELSE IF node.node = "ClassDef"
    THEN LET class_elements == ParseClass(node)
             Public(e) == e.is_public
         IN  [NoElements EXCEPT !.elements =
                 IF private THEN class_elements ELSE SelectSeq(class_elements, Public)]
    ELSE NoElements

\* the loop with the handler around it instead of inside it: the first
\* failure ends the extraction
RECURSIVE ParseNodesStopAtFailure(_, _)
ParseNodesStopAtFailure(nodes, private) ==
    IF nodes = << >> THEN NoElements
    ELSE LET first == ParseNode(Head(nodes), private)
             rest == ParseNodesStopAtFailure(Tail(nodes), private)
         IN  IF first.parse_errors # << >> THEN first
             ELSE [elements |-> first.elements \o rest.elements,
                   parse_errors |-> rest.parse_errors]

\* for node in ast.iter_child_nodes(tree): try: ... except Exception: ...
RECURSIVE ParseNodes(_, _)
ParseNodes(nodes, private) ==
    IF nodes = << >> THEN NoElements
    ELSE LET first == ParseNode(Head(nodes), private)
             rest == ParseNodes(Tail(nodes), private)
         IN  [elements |-> first.elements \o rest.elements,
              parse_errors |-> first.parse_errors \o rest.parse_errors]

\* PythonParser.parse_file: the ParseResult of a file that is there and parses
ParseFile(tree, private) == ParseNodes(tree, private)

\* what parse_file raises when the per-element failures leave the loop too
ParseFileRaisesElementFailures(status, tree) ==
    IF status = "missing" THEN Some("FileNotFoundError")
    ELSE IF status = "undecodable" THEN Some("UnicodeDecodeError")
    ELSE IF status = "syntax_error" THEN Some("SyntaxError")
    ELSE IF \E i \in 1..Len(tree) : UnparseRaises(tree[i]) THEN Some("RecursionError")
    ELSE None

\* PythonParser.parse_file: the exception that leaves it, if any.  A file
\* that does not exist raises FileNotFoundError; a failure of read_text or of
\* ast.parse is logged and raised again
ParseFileRaises(status, tree) ==
    IF status = "missing" THEN Some("FileNotFoundError")
    ELSE IF status = "undecodable" THEN Some("UnicodeDecodeError")
    ELSE IF status = "syntax_error" THEN Some("SyntaxError")
    ELSE None

\* ----------------------------------------------------------- analyzer.py
\* CodeAnalyzer(calculate_complexity, infer_types, detect_patterns)
Flags == [calculate_complexity : BOOLEAN, infer_types : BOOLEAN,
          detect_patterns : BOOLEAN]

GodClassMethods == 20
LongMethodLines == 100
HighComplexity == 15
TooManyParameters == 5
MagicNumberCount == 3
UntypedParameters == 2
BaseConfidence == 50
PatternBonus == 10
ConfidenceCap == 90
AntiPatternPenalty == 15

\* the tags p with p.startswith("anti_pattern_")
AntiPatternTags ==
    {"anti_pattern_god_class", "anti_pattern_long_method",
     "anti_pattern_high_complexity", "anti_pattern_too_many_parameters",
     "anti_pattern_magic_numbers"}

\* the count without the base score of 1
CalculateComplexityNoBase(source_code) ==
    source_code.branches
      + SumSeq([i \in 1..Len(source_code.boolops) |-> source_code.boolops[i] - 1])
      + source_code.comp_ifs

\* CodeAnalyzer._calculate_complexity
CalculateComplexity(source_code) ==
    1 + source_code.branches
      + SumSeq([i \in 1..Len(source_code.boolops) |-> source_code.boolops[i] - 1])
      + source_code.comp_ifs

\* the type_hints dict of _infer_parameter_types after the walk over the
\* first n usage nodes: a later node replaces the hint of an earlier one
RECURSIVE TypeHints(_, _)
TypeHints(usage, n) ==
    IF n = 0 THEN << >>
    ELSE LET before == TypeHints(usage, n - 1)
             u == usage[n]
             hint ==
                IF u.kind = "compare_none" THEN "Optional"
                ELSE IF u.method \in {s_append, s_extend, s_pop} THEN "list"
                ELSE IF u.method \in {s_add, s_remove, s_discard} THEN "set"
                ELSE IF u.method \in {s_keys, s_values, s_items, s_get} THEN "dict"
                ELSE IF u.method \in {s_strip, s_split, s_join, s_lower, s_upper}
                     THEN "str"
                ELSE ""
         IN  IF hint = "" THEN before ELSE (u.name :> hint) @@ before

\* CodeAnalyzer._infer_parameter_types: the hints go to
\* metadata["inferred_types"]; the parameters, which are frozen, stay as parsed
InferParameterTypes(element) ==
    LET type_hints == TypeHints(element.source_code.usage,
                                Len(element.source_code.usage))
        names == {element.parameters[i].name : i \in
                     {k \in 1..Len(element.parameters) :
                         /\ IsNone(element.parameters[k].type_hint)
                         /\ element.parameters[k].name \in DOMAIN type_hints}}
        new == [n \in names |-> type_hints[n]]
    IN  [element EXCEPT !.metadata.inferred_types = new @@ @]

\* patterns.append(tag) under a condition
AddIf(patterns, condition, tag) ==
    IF condition THEN Append(patterns, tag) ELSE patterns

\* param_count = len([p for p in element.parameters if p.name not in ("self", "cls")])
NotSelfOrCls(p) == p.name \notin {s_self, s_cls}
ParamCount(element) == Len(SelectSeq(element.parameters, NotSelfOrCls))

\* the digits, and the text of a one-digit number
Digits == <<"0", "1", "2", "3", "4", "5", "6", "7", "8", "9">>
DigitText(n) == <<Digits[n + 1]>>

\* the numeric-literal pattern on one literal token: a run of digits that
\* is not 0, 1 or 2 and has neither a dot nor a digit before or after it, so
\* that no part of a float matches
NotSmallLiteral(literal) ==
    /\ "." \notin Range(literal)
    /\ literal \notin {DigitText(0), DigitText(1), DigitText(2)}

\* re.findall of the numeric-literal pattern: one entry for every match
MagicNumbers(source_code) == SelectSeq(source_code.literals, NotSmallLiteral)

\* the tags _detect_patterns appends for the decorators
DecoratorPatterns(element) ==
    LET decorator_names == Range(element.decorators)
        p1 == AddIf(<< >>, s_property \in decorator_names, "property_accessor")
        p2 == AddIf(p1, s_cached_property \in decorator_names
                            \/ s_lru_cache \in decorator_names, "cached_computation")
        p3 == AddIf(p2, \E name \in decorator_names : StartsWith(name, s_validate),
                    "validation")
        p4 == AddIf(p3, s_contextmanager \in decorator_names, "context_manager")
        p5 == AddIf(p4, s_abstractmethod \in decorator_names
                            \/ s_abc_abstractmethod \in decorator_names,
                    "abstract_method")
        p6 == AddIf(p5, s_staticmethod \in decorator_names, "static_method")
    IN  AddIf(p6, s_classmethod \in decorator_names, "class_method")

\* the tags _detect_patterns appends for the name: the CRUD chain, then the
\* chain of the common patterns
NamingPatterns(element) ==
    LET name_lower == Lower(element.name)
        crud ==
            IF StartsWithAny(name_lower, {s_get_, s_fetch_, s_retrieve_})
            THEN <<"crud_read">>
            ELSE IF StartsWithAny(name_lower, {s_set_, s_update_})
            THEN <<"crud_update">>
            ELSE IF StartsWithAny(name_lower, {s_create_, s_add_})
            THEN <<"crud_create">>
            ELSE IF StartsWithAny(name_lower, {s_delete_, s_remove_})
            THEN <<"crud_delete">>
            ELSE << >>
        common ==
            IF StartsWithAny(name_lower, {s_is_, s_has_, s_can_}) THEN <<"predicate">>
            ELSE IF StartsWith(name_lower, s_make_) THEN <<"factory_method">>
            ELSE IF StartsWith(name_lower, s_build_) THEN <<"builder_method">>
            ELSE IF StartsWith(name_lower, s_validate_) THEN <<"validation">>
            ELSE IF StartsWithAny(name_lower, {s_serialize_, s_deserialize_})
            THEN <<"serialization">>
            ELSE IF StartsWith(name_lower, s_parse_) THEN <<"parser">>
            ELSE IF StartsWith(name_lower, s_format_) THEN <<"formatter">>
            ELSE << >>
    IN  crud \o common

\* the tags _detect_patterns appends for the source text: the design
\* patterns, then the anti-patterns
SourcePatterns(element) ==
    LET src == element.source_code
        name_lower == Lower(element.name)
        is_class == element.element_type = CLASS
        is_func == element.element_type \in {FUNCTION, METHOD}
        Has(m) == m \in src.markers
        s1 == AddIf(<< >>, Has(s___new__) /\ Has(s_instance), "singleton")
        s2 == IF is_class
              THEN AddIf(s1, Contains(name_lower, s_factory)
                                \/ Contains(name_lower, s_creator), "factory")
              ELSE IF is_func
              THEN AddIf(s1, Has(s_return_sp)
                                /\ StartsWithAny(element.name,
                                                 {s_create_, s_make_, s_build_}),
                         "factory_method")
              ELSE s1
        s3 == AddIf(s2, is_class /\ (Contains(name_lower, s_strategy)
                                        \/ Contains(name_lower, s_algorithm)),
                    "strategy")
        s4 == AddIf(s3, Has(s_subscribe) \/ Has(s_notify) \/ Has(s_observer)
                            \/ Has(s_listener), "observer")
        s5 == AddIf(s4, is_class /\ Contains(name_lower, s_wrapper),
                    "decorator_pattern")
        s6 == AddIf(s5, is_class /\ Contains(name_lower, s_adapter), "adapter")
        s7 == AddIf(s6, Has(s___iter__) \/ Has(s___next__), "iterator")
        s8 == AddIf(s7, Has(s___enter__) /\ Has(s___exit__), "context_manager")
        s9 == AddIf(s8, Has(s___get__) \/ Has(s___set__), "descriptor")
        s10 == AddIf(s9, is_class /\ Has(s_raise_NotImplementedError),
                     "template_method")
        s11 == AddIf(s10, is_class /\ Has(s_execute), "command")
        \* method_count = element.metadata.get("method_count", 0)
        method_count == IF IsNone(element.metadata.method_count) THEN 0
                        ELSE Get(element.metadata.method_count)
        \* "if method_count > 20" raises TypeError when the value is no number
        comparison_raises == is_class /\ "method_count" \in element.metadata.malformed
        a1 == AddIf(s11, is_class /\ method_count > GodClassMethods,
                    "anti_pattern_god_class")
        a2 == AddIf(a1, is_func /\ src.lines > LongMethodLines,
                    "anti_pattern_long_method")
        a3 == AddIf(a2, is_func /\ ~IsNone(element.complexity_score)
                            /\ Get(element.complexity_score) > HighComplexity,
                    "anti_pattern_high_complexity")
        a4 == AddIf(a3, ParamCount(element) > TooManyParameters,
                    "anti_pattern_too_many_parameters")
    IN  IF comparison_raises THEN s11
        ELSE AddIf(a4, is_func /\ Len(MagicNumbers(src)) > MagicNumberCount,
                   "anti_pattern_magic_numbers")

\* CodeAnalyzer._detect_patterns
DetectPatterns(element) ==
    DecoratorPatterns(element) \o NamingPatterns(element) \o SourcePatterns(element)

IsAntiPattern(p) == p \in AntiPatternTags
IsDesignPattern(p) == p \notin AntiPatternTags

\* the confidence with the anti-pattern tags counted as design patterns too
PatternConfidenceCountsAll(patterns) ==
    LET anti_patterns == SelectSeq(patterns, IsAntiPattern)
        base_confidence ==
            Min(ConfidenceCap, BaseConfidence + Len(patterns) * PatternBonus)
        confidence_penalty == Len(anti_patterns) * AntiPatternPenalty
    IN  Max(0, base_confidence - confidence_penalty)

\* _analyze_element, lines 112-118: the confidence of a non-empty tag list
PatternConfidence(patterns) ==
    LET anti_patterns == SelectSeq(patterns, IsAntiPattern)
        design_patterns == SelectSeq(patterns, IsDesignPattern)
        base_confidence ==
            Min(ConfidenceCap, BaseConfidence + Len(design_patterns) * PatternBonus)
        confidence_penalty == Len(anti_patterns) * AntiPatternPenalty
    IN  Max(0, base_confidence - confidence_penalty)

\* one suggestion: the sentence, and the number interpolated into it (0: none)
Suggestion(text, n) == [text |-> text, n |-> n]

UntypedParam(p) == IsNone(p.type_hint) /\ p.name \notin {s_self, s_cls}

\* CodeAnalyzer._generate_suggestions
GenerateSuggestions(element, patterns) ==
    LET Has(tag) == tag \in Range(patterns)
        is_func == element.element_type \in {FUNCTION, METHOD}
        AddS(seq, condition, text, n) ==
            IF condition THEN Append(seq, Suggestion(text, n)) ELSE seq
        g1 == AddS(<< >>, Has("anti_pattern_god_class"),
                   "Consider breaking this class into smaller classes", 0)
        g2 == AddS(g1, Has("anti_pattern_long_method"),
                   "Consider refactoring this method into smaller functions", 0)
        g3 == AddS(g2, Has("anti_pattern_high_complexity"),
                   "High cyclomatic complexity",
                   IF IsNone(element.complexity_score) THEN 0
                   ELSE Get(element.complexity_score))
        g4 == AddS(g3, Has("anti_pattern_too_many_parameters"),
                   "This function has too many parameters", ParamCount(element))
        g5 == AddS(g4, Has("anti_pattern_magic_numbers"),
                   "Consider extracting magic numbers into named constants", 0)
        g6 == AddS(g5, Has("factory_method") /\ is_func, "Factory method detected", 0)
        g7 == AddS(g6, Has("singleton"), "Singleton pattern detected", 0)
        untyped_params == SelectSeq(element.parameters, UntypedParam)
        g8 == AddS(g7, is_func /\ Len(untyped_params) > UntypedParameters,
                   "Add type hints to parameters", 0)
        g9 == AddS(g8, is_func /\ ~IsNone(element.return_info)
                           /\ IsNone(Get(element.return_info).type_hint),
                   "Add return type hint", 0)
        g10 == AddS(g9, Has("crud_read"), "CRUD read operation detected", 0)
        g11 == AddS(g10, Has("crud_create"), "CRUD create operation detected", 0)
        g12 == AddS(g11, Has("crud_update"), "CRUD update operation detected", 0)
    IN  AddS(g12, Has("crud_delete"), "CRUD delete operation detected", 0)

\* CodeAnalyzer._analyze_class: the counts taken from the source text
AnalyzeClass(element) ==
    [element EXCEPT !.metadata.method_count = Some(element.source_code.defs),
                    !.metadata.property_count = Some(element.source_code.props),
                    !.metadata.malformed = @ \ {"method_count", "property_count"}]

\* CodeAnalyzer._analyze_function: the parameter count, when there are parameters
AnalyzeFunction(element) ==
    IF element.parameters # << >>
    THEN [element EXCEPT !.metadata.parameter_count = Some(ParamCount(element))]
    ELSE element

\* _analyze_element, lines 92-97
ComplexityStep(flags, element) ==
    IF flags.calculate_complexity /\ element.element_type \in {FUNCTION, METHOD}
    THEN [element EXCEPT
             !.complexity_score = Some(CalculateComplexity(element.source_code))]
    ELSE element

\* the type inference run whatever its flag says
InferenceStepWhateverTheFlag(flags, element) ==
    IF element.parameters # << >> THEN InferParameterTypes(element) ELSE element

\* _analyze_element, lines 99-101
InferenceStep(flags, element) ==
    IF flags.infer_types /\ element.parameters # << >>
    THEN InferParameterTypes(element)
    ELSE element

\* _analyze_element, lines 103-121: the fields are written only when the
\* tag list is not empty
PatternStep(flags, element) ==
    IF flags.detect_patterns
    THEN LET patterns == DetectPatterns(element)
         IN  IF patterns # << >>
             THEN LET tagged ==
                          [element EXCEPT
                              !.detected_patterns = patterns,
                              !.metadata.patterns = Some(patterns),
                              !.pattern_confidence = PatternConfidence(patterns)]
                  IN  [tagged EXCEPT
                          !.suggestions = GenerateSuggestions(tagged, patterns)]
             ELSE element
    ELSE element

\* _analyze_element, lines 123-127
MetadataStep(element) ==
    IF element.element_type = CLASS THEN AnalyzeClass(element)
    ELSE IF element.element_type \in {FUNCTION, METHOD} THEN AnalyzeFunction(element)
    ELSE element

\* _analyze_element with the pattern detection run before the complexity
\* calculation
AnalyzeElementPatternsFirst(flags, element) ==
    LET analysed ==
            MetadataStep(InferenceStep(flags,
                ComplexityStep(flags, PatternStep(flags, element))))
    IN  [analysed EXCEPT !.analysed = TRUE]

\* CodeAnalyzer._analyze_element: the element after the call
AnalyzeElement(flags, element) ==
    LET analysed ==
            MetadataStep(PatternStep(flags,
                InferenceStep(flags, ComplexityStep(flags, element))))
    IN  [analysed EXCEPT !.analysed = TRUE]

\* ------------------------------------------------------------ the inputs
MethodPathBound == 1

ParamNames == <<s_a, s_b, s_c, s_d, s_e, s_f, s_g, s_h>>

NoArguments == Arguments(<< >>, << >>, << >>, None, << >>, << >>, None)

\* def f(a, b, ...): n positional parameters without annotation
UntypedArgs(n) ==
    [NoArguments EXCEPT !.args = [i \in 1..n |-> Arg(ParamNames[i], None)]]

\* def f(a: int, b: int, ...)
TypedArgs(n) ==
    [NoArguments EXCEPT !.args = [i \in 1..n |-> Arg(ParamNames[i], Some("int"))]]

\* def m(self, a, ...)
SelfArgs(n) ==
    [NoArguments EXCEPT
        !.args = <<Arg(s_self, None)>> \o [i \in 1..n |-> Arg(ParamNames[i], None)]]

\* def f(a, b=1, *c, d, e=2, **f)
MixedArgs ==
    Arguments(<< >>, <<Arg(s_a, None), Arg(s_b, None)>>, <<"1">>,
              Some(Arg(s_c, None)), <<Arg(s_d, None), Arg(s_e, Some("int"))>>,
              <<None, Some("2")>>, Some(Arg(s_f, None)))

ArgChoices ==
    {UntypedArgs(0), UntypedArgs(UntypedParameters), UntypedArgs(UntypedParameters + 1),
     UntypedArgs(TooManyParameters), UntypedArgs(TooManyParameters + 1),
     TypedArgs(UntypedParameters + 1), MixedArgs}

\* the numeric literals of the test's calculate_discount: 100, 0.9, 50,
\* 0.95, 25, 0.97, 0.99
DiscountLiterals ==
    <<<<"1", "0", "0">>, <<"0", ".", "9">>, <<"5", "0">>, <<"0", ".", "9", "5">>,
      <<"2", "5">>, <<"0", ".", "9", "7">>, <<"0", ".", "9", "9">>>>

\* "return a"
PlainBody == Body({s_return_sp}, 2, << >>, 0, << >>, 0, FALSE, 0, << >>)

Call(obj, method) == [kind |-> "call", name |-> obj, method |-> method]
CompareNone(name) == [kind |-> "compare_none", name |-> name, method |-> << >>]

BodyChoices ==
    {PlainBody,
     [PlainBody EXCEPT !.text = {}],
     [PlainBody EXCEPT !.lines = LongMethodLines],
     [PlainBody EXCEPT !.lines = LongMethodLines + 1],
     [PlainBody EXCEPT !.branches = HighComplexity - 1],
     [PlainBody EXCEPT !.branches = HighComplexity - 2, !.boolops = <<3>>],
     [PlainBody EXCEPT !.branches = HighComplexity - 1, !.comp_ifs = 1,
                       !.literals = <<DigitText(1), DigitText(2), DigitText(7)>>],
     [PlainBody EXCEPT !.literals = [i \in 1..MagicNumberCount |-> DigitText(2 + i)]],
     [PlainBody EXCEPT
         !.literals = [i \in 1..(MagicNumberCount + 1) |-> DigitText(2 + i)]],
     [PlainBody EXCEPT !.literals = [i \in 1..(MagicNumberCount + 1) |-> DigitText(7)]],
     [PlainBody EXCEPT !.literals = DiscountLiterals],
     [PlainBody EXCEPT !.usage = <<Call(s_a, s_append), CompareNone(s_b)>>],
     [PlainBody EXCEPT !.usage = <<Call(s_a, s_strip), Call(s_a, s_get)>>,
                       !.nested_defs = 1]}

FunctionNames ==
    {s_process_data, s_get_x, s_make_x, s_Make_x, s_validate_x, s_create_x, s__helper}

DecoratorChoices ==
    {<< >>, <<s_validate_args>>, <<s_contextmanager>>, <<s_lru_cache, s_staticmethod>>}

SignalBodies ==
    {PlainBody,
     [PlainBody EXCEPT !.text = {}],
     [PlainBody EXCEPT !.text = {s_return_sp, s___enter__, s___exit__}],
     [PlainBody EXCEPT !.text = {s_notify}, !.yields = TRUE]}

\* the module-level functions of the files with one function: every
\* combination of a name, a decorator list and a body text; every combination
\* of a parameter list and a body for two of the names; async functions
FunctionNodes ==
    {FunctionDef("FunctionDef", name, decs, UntypedArgs(0), None, body) :
        name \in FunctionNames, decs \in DecoratorChoices, body \in SignalBodies}
    \cup {FunctionDef("FunctionDef", name, << >>, args, None, body) :
            name \in {s_process_data, s_make_x}, args \in ArgChoices,
            body \in BodyChoices}
    \cup {FunctionDef("AsyncFunctionDef", s_get_x, << >>, args, returns, PlainBody) :
            args \in {UntypedArgs(0), UntypedArgs(UntypedParameters + 1)},
            returns \in {None, Some("int")}}

\* signatures: def f(a, /, b); def f(a=1, /, b=2); def f(a, b=1, c=2);
\* def f(*, d=2, e); def f(a, /, b, c=3, *g, d, e=5, **h)
SignatureChoices ==
    {MixedArgs,
     Arguments(<<Arg(s_a, None)>>, <<Arg(s_b, None)>>, << >>, None, << >>, << >>, None),
     Arguments(<<Arg(s_a, None)>>, <<Arg(s_b, None)>>, <<"1", "2">>, None, << >>,
               << >>, None),
     Arguments(<< >>, <<Arg(s_a, None), Arg(s_b, None), Arg(s_c, None)>>, <<"1", "2">>,
               None, << >>, << >>, None),
     Arguments(<< >>, << >>, << >>, None, <<Arg(s_d, None), Arg(s_e, None)>>,
               <<Some("2"), None>>, None),
     Arguments(<<Arg(s_a, None)>>, <<Arg(s_b, None), Arg(s_c, Some("int"))>>, <<"3">>,
               Some(Arg(s_g, None)), <<Arg(s_d, None), Arg(s_e, None)>>,
               <<None, Some("5")>>, Some(Arg(s_h, None)))}

SignatureNodes ==
    {FunctionDef("FunctionDef", s_process_data, << >>, args, None, PlainBody) :
        args \in SignatureChoices}

\* raise statements: raise ValueError(...) and raise TypeError at the top of
\* the body, raise ValueError(...) and raise errors.NotFound(...) one block
\* down, raise errors.NotFound, and a bare raise in a handler
RaiseStatements ==
    {Raise("call_name", "ValueError", 1), Raise("name", "TypeError", 1),
     Raise("call_name", "ValueError", 2), Raise("call_attr", "errors.NotFound", 2),
     Raise("attr", "errors.NotFound", 2), Raise("bare", "", 3)}

RaiseChoices ==
    {<<r>> : r \in RaiseStatements} \cup (RaiseStatements \X RaiseStatements)
        \cup {<<Raise("call_name", "ValueError", 2), Raise("name", "TypeError", 1),
                Raise("call_name", "ValueError", 1)>>}

RaiseNodes ==
    {FunctionDef("FunctionDef", s_process_data, << >>, UntypedArgs(0), None,
                 [PlainBody EXCEPT !.raise_stmts = stmts]) : stmts \in RaiseChoices}

\* the members of the classes
PublicMethod == FunctionDef("FunctionDef", s_run, << >>, SelfArgs(1), None, PlainBody)
PrivateMethod == FunctionDef("FunctionDef", s__run, << >>, SelfArgs(0), None, PlainBody)
AsyncMethod ==
    FunctionDef("AsyncFunctionDef", s_get_x, << >>, SelfArgs(0), None, PlainBody)
IterMethod ==
    FunctionDef("FunctionDef", s___iter__, << >>, SelfArgs(0), None,
                [PlainBody EXCEPT !.nested_defs = 1])
PropertyMethod ==
    FunctionDef("FunctionDef", s_value, <<s_property>>, SelfArgs(0), None, PlainBody)

\* functions ast.unparse cannot render
DeepFunction ==
    FunctionDef("FunctionDef", s_get_x, << >>, UntypedArgs(0), None,
                [PlainBody EXCEPT !.too_deep = TRUE])
DeepMethod ==
    FunctionDef("FunctionDef", s_execute, << >>, SelfArgs(0), None,
                [PlainBody EXCEPT !.too_deep = TRUE])

Repeat(x, n) == [i \in 1..n |-> x]

SmallClassBodies ==
    {<< >>, <<PublicMethod>>, <<PrivateMethod>>, <<PublicMethod, PrivateMethod>>,
     <<PrivateMethod, PublicMethod>>, <<AsyncMethod, PublicMethod>>,
     <<PropertyMethod, IterMethod>>}

\* class bodies at the god-class threshold
LargeClassBodies ==
    {Repeat(PublicMethod, GodClassMethods),
     Repeat(PublicMethod, GodClassMethods + 1),
     Repeat(PublicMethod, GodClassMethods - 1) \o <<IterMethod>>,
     Repeat(PublicMethod, GodClassMethods) \o <<AsyncMethod>>}

ClassNodes ==
    {ClassDef(s_Plain, << >>, body, {}) : body \in SmallClassBodies \cup LargeClassBodies}
        \cup {ClassDef(name, << >>, body, {}) :
                name \in {s_UserFactory, s__Hidden},
                body \in {<<PublicMethod>>, <<PublicMethod, PrivateMethod>>}}

\* a module-level statement that is neither a function nor a class
OtherNode == [node |-> "Assign"]

\* the nodes of the files with two module-level statements
SiblingNodes ==
    {FunctionDef("FunctionDef", s_process_data, << >>, UntypedArgs(1), None, PlainBody),
     FunctionDef("FunctionDef", s__helper, << >>, UntypedArgs(0), None, PlainBody),
     ClassDef(s_Plain, << >>, <<PublicMethod, PrivateMethod>>, {}),
     ClassDef(s__Hidden, << >>, <<PublicMethod>>, {}),
     DeepFunction,
     ClassDef(s_UserFactory, << >>, <<PublicMethod, DeepMethod>>, {}),
     ClassDef(s_Plain, << >>,
              <<FunctionDef("FunctionDef", s_run, << >>, MixedArgs, None,
                            [PlainBody EXCEPT !.raise_stmts =
                                <<Raise("name", "TypeError", 2),
                                  Raise("call_name", "ValueError", 1)>>])>>, {}),
     OtherNode}

\* the syntax trees of the source files
Files ==
    {<<n>> : n \in FunctionNodes \cup ClassNodes \cup SignatureNodes \cup RaiseNodes}
        \cup {pair \in SiblingNodes \X SiblingNodes : pair[1] # pair[2]}

\* -------------------------------------------------------- the operations
Op(name, path) == [op |-> name, path |-> path]

NoCall == [fn |-> "none"]

\* no FileOperations at work
NoDisk ==
    /\ files = << >>
    /\ file_ops = [backup_suffix |-> s_bak, dry_run |-> FALSE]
    /\ since_backup = << >>

\* no DocpilotLSPServer at work
NoServer ==
    server = [running |-> FALSE, initialized |-> FALSE, pc |-> "new", stdin |-> << >>,
              message |-> None, response |-> None, sent |-> 0,
              at_eof |-> FALSE, exit_handled |-> FALSE]

\* what can be on disk at the path the caller gives
Sources == {"ok", "missing", "undecodable", "syntax_error"}

Init ==
    /\ source \in Sources
    /\ IF source = "ok" THEN file \in Files ELSE file = << >>
    /\ extract_private \in BOOLEAN
    /\ analyzer \in Flags
    /\ result = None
    /\ parsed_private = FALSE
    /\ raised = None
    /\ lastOp = Op("init", << >>)
    /\ call = NoCall
    /\ returned = None
    /\ NoDisk
    /\ NoServer

\* PythonParser.parse_file (and parse_string, which goes through it)
ParseFileOp ==
    /\ raised' = ParseFileRaises(source, file)
    /\ IF IsNone(raised')
       THEN /\ result' = Some(ParseFile(file, extract_private))
            /\ parsed_private' = extract_private
       ELSE UNCHANGED <<result, parsed_private>>
    /\ lastOp' = Op("parse_file", << >>)
    /\ UNCHANGED <<source, file, extract_private, analyzer, call, returned, Disk, server>>

\* for element in result.elements: self._analyze_element(element)
AnalyzeElements(parsed) ==
    [parsed EXCEPT !.elements =
        [i \in 1..Len(parsed.elements) |-> AnalyzeElement(analyzer, parsed.elements[i])]]

\* CodeAnalyzer.analyze_file: parses with a PythonParser() of its own, whose
\* extract_private is the default False
AnalyzeFileOp ==
    /\ raised' = ParseFileRaises(source, file)
    /\ IF IsNone(raised')
       THEN /\ result' = Some(AnalyzeElements(ParseFile(file, FALSE)))
            /\ parsed_private' = FALSE
       ELSE UNCHANGED <<result, parsed_private>>
    /\ lastOp' = Op("analyze_file", << >>)
    /\ UNCHANGED <<source, file, extract_private, analyzer, call, returned, Disk, server>>

\* CodeAnalyzer.analyze_element on an element of result.elements
AnalyzeTopElement(i) ==
    /\ ~IsNone(result)
    /\ i \in 1..Len(Get(result).elements)
    /\ result' = Some([Get(result) EXCEPT
                          !.elements[i] = AnalyzeElement(analyzer, @)])
    /\ raised' = None
    /\ lastOp' = Op("analyze_element", <<i>>)
    /\ UNCHANGED <<source, file, extract_private, parsed_private, analyzer, call, returned, Disk, server>>

\* CodeAnalyzer.analyze_element on a method of a class of result.elements
AnalyzeMethodElement(i, j) ==
    /\ ~IsNone(result)
    /\ i \in 1..Len(Get(result).elements)
    /\ j \in 1..Min(MethodPathBound, Len(Get(result).elements[i].methods))
    /\ result' = Some([Get(result) EXCEPT
                          !.elements[i].methods[j] = AnalyzeElement(analyzer, @)])
    /\ raised' = None
    /\ lastOp' = Op("analyze_element", <<i, j>>)
    /\ UNCHANGED <<source, file, extract_private, parsed_private, analyzer, call, returned, Disk, server>>

\* a caller of the engine writes element.metadata["method_count"] = <a value
\* that is no number> on a class element: metadata is a free-form dict
SetMetadataOp(i) ==
    /\ ~IsNone(result)
    /\ i \in 1..Len(Get(result).elements)
    /\ Get(result).elements[i].element_type = CLASS
    /\ "method_count" \notin Get(result).elements[i].metadata.malformed
    /\ result' = Some([Get(result) EXCEPT
                          !.elements[i].metadata.malformed = @ \cup {"method_count"}])
    /\ lastOp' = Op("set_metadata", <<i>>)
    /\ UNCHANGED <<source, raised, file, extract_private, parsed_private, analyzer, call, returned, Disk, server>>

Next ==
    \/ ParseFileOp
    \/ AnalyzeFileOp
    \/ \E i \in 1..Len(file) : AnalyzeTopElement(i)
    \/ \E i \in 1..Len(file), j \in 1..MethodPathBound : AnalyzeMethodElement(i, j)
    \/ \E i \in 1..Len(file) : SetMetadataOp(i)

Spec == Init /\ [][Next]_vars

\* ------------------------------------------------- parser.py: module path
s_root == <<"/">>
s_home == <<"h", "o", "m", "e">>
s_proj == <<"p", "r", "o", "j">>
s_pkg == <<"p", "k", "g">>
s_src == <<"s", "r", "c">>
s_lib == <<"l", "i", "b">>
s_python == <<"p", "y", "t", "h", "o", "n">>
s_mod_py == <<"m", "o", "d", ".", "p", "y">>
s___init___py == <<"_", "_", "i", "n", "i", "t", "_", "_", ".", "p", "y">>
s_script == <<"s", "c", "r", "i", "p", "t">>
s_dot_py == <<".", "p", "y">>
s___init__ == <<"_", "_", "i", "n", "i", "t", "_", "_">>

EndsWith(s, suffix) ==
    /\ Len(s) >= Len(suffix)
    /\ SubSeq(s, Len(s) - Len(suffix) + 1, Len(s)) = suffix

\* ".".join(parts)
RECURSIVE Join(_, _)
Join(parts, sep) ==
    IF parts = << >> THEN << >>
    ELSE IF Len(parts) = 1 THEN parts[1]
    ELSE parts[1] \o sep \o Join(Tail(parts), sep)

\* PurePath.stem: the name up to its last dot, when that dot is neither the
\* first nor the last character
Stem(name) ==
    LET dots == {k \in 1..Len(name) : name[k] = "."}
        last == CHOOSE k \in dots : \A j \in dots : j <= k
    IN  IF dots = {} \/ last = 1 \/ last = Len(name) THEN name
        ELSE SubSeq(name, 1, last - 1)

\* markers = ("src", "lib", "python")
Markers == {s_src, s_lib, s_python}

\* PythonParser._get_module_path(file_path), file_path.parts being parts
GetModulePath(parts) ==
    LET marked == {i \in 1..Len(parts) : parts[i] \in Markers}
        \* start_idx, 0-based: one past the first marker, 0 without a marker
        start_idx == IF marked = {} THEN 0
                     ELSE CHOOSE i \in marked : \A j \in marked : i <= j
        module_parts == SubSeq(parts, start_idx + 1, Len(parts))
        stripped ==
            IF module_parts # << >> /\ EndsWith(module_parts[Len(module_parts)], s_dot_py)
            THEN [module_parts EXCEPT ![Len(module_parts)] =
                     SubSeq(@, 1, Len(@) - Len(s_dot_py))]
            ELSE module_parts
        popped ==
            IF stripped # << >> /\ stripped[Len(stripped)] = s___init__
            THEN SubSeq(stripped, 1, Len(stripped) - 1)
            ELSE stripped
    IN  IF popped # << >> THEN Join(popped, <<".">>) ELSE Stem(parts[Len(parts)])

\* the resolved paths: the root, up to two directories, a file name
Directories == {s_home, s_proj, s_pkg, s_src, s_lib}
FileNames == {s_mod_py, s___init___py, s_script}
FilePaths ==
    {<<s_root>> \o dirs \o <<name>> :
        dirs \in {<< >>} \cup {<<d>> : d \in Directories}
                    \cup (Directories \X Directories),
        name \in FileNames}

\* ------------------------------------------------------ type_inference.py
\* Type strings and names, as text
t_None == <<"N", "o", "n", "e">>
t_bool == <<"b", "o", "o", "l">>
t_int == <<"i", "n", "t">>
t_float == <<"f", "l", "o", "a", "t">>
t_str == <<"s", "t", "r">>
t_bytes == <<"b", "y", "t", "e", "s">>
t_Any == <<"A", "n", "y">>
t_list == <<"l", "i", "s", "t">>
t_dict == <<"d", "i", "c", "t">>
t_set == <<"s", "e", "t">>
t_tuple == <<"t", "u", "p", "l", "e">>
t_Callable == <<"C", "a", "l", "l", "a", "b", "l", "e">>
t_Sequence == <<"S", "e", "q", "u", "e", "n", "c", "e">>
t_int_str_list == <<"i", "n", "t", " ", "|", " ", "s", "t", "r", " ", "|", " ", "l", "i", "s", "t">>
t_str_Path == <<"s", "t", "r", " ", "|", " ", "P", "a", "t", "h">>
t_dict_keys == <<"d", "i", "c", "t", "_", "k", "e", "y", "s">>
t_dict_values == <<"d", "i", "c", "t", "_", "v", "a", "l", "u", "e", "s">>
t_dict_items == <<"d", "i", "c", "t", "_", "i", "t", "e", "m", "s">>
t_list_str == <<"l", "i", "s", "t", "[", "s", "t", "r", "]">>
t_range == <<"r", "a", "n", "g", "e">>
t_TextIOWrapper == <<"T", "e", "x", "t", "I", "O", "W", "r", "a", "p", "p", "e", "r">>
t_type == <<"t", "y", "p", "e">>
t_bytearray == <<"b", "y", "t", "e", "a", "r", "r", "a", "y">>
t_frozenset == <<"f", "r", "o", "z", "e", "n", "s", "e", "t">>
t_list_open == <<"l", "i", "s", "t", "[">>
t_dict_open == <<"d", "i", "c", "t", "[">>
t_set_open == <<"s", "e", "t", "[">>
t_tuple_open == <<"t", "u", "p", "l", "e", "[">>
t_Generator_open == <<"G", "e", "n", "e", "r", "a", "t", "o", "r", "[">>
t_Generator_close == <<",", " ", "N", "o", "n", "e", ",", " ", "N", "o", "n", "e", "]">>
t_close == <<"]">>
t_comma == <<",", " ">>
t_bar == <<" ", "|", " ">>
t_bar_None == <<" ", "|", " ", "N", "o", "n", "e">>
n_user_id == <<"u", "s", "e", "r", "_", "i", "d">>
n_config == <<"c", "o", "n", "f", "i", "g">>
n_settings == <<"s", "e", "t", "t", "i", "n", "g", "s">>
n_user_dict == <<"u", "s", "e", "r", "_", "d", "i", "c", "t">>
n_is_dict == <<"i", "s", "_", "d", "i", "c", "t">>
n_items == <<"i", "t", "e", "m", "s">>
n_x == <<"x">>
n_Count == <<"C", "o", "u", "n", "t">>
n_file_path == <<"f", "i", "l", "e", "_", "p", "a", "t", "h">>
n_first_name == <<"f", "i", "r", "s", "t", "_", "n", "a", "m", "e">>
n_values == <<"v", "a", "l", "u", "e", "s">>
n_options == <<"o", "p", "t", "i", "o", "n", "s">>
x__id == <<"_", "i", "d">>
x__name == <<"_", "n", "a", "m", "e">>
x__list == <<"_", "l", "i", "s", "t">>
x__dict == <<"_", "d", "i", "c", "t">>
x__set == <<"_", "s", "e", "t">>
x__tuple == <<"_", "t", "u", "p", "l", "e">>
x__path == <<"_", "p", "a", "t", "h">>
x_s == <<"s">>
x_is_ == <<"i", "s", "_">>
x_has_ == <<"h", "a", "s", "_">>
x_can_ == <<"c", "a", "n", "_">>
w_id == <<"i", "d">>
w_count == <<"c", "o", "u", "n", "t">>
w_index == <<"i", "n", "d", "e", "x">>
w_size == <<"s", "i", "z", "e">>
w_length == <<"l", "e", "n", "g", "t", "h">>
w_name == <<"n", "a", "m", "e">>
w_title == <<"t", "i", "t", "l", "e">>
w_description == <<"d", "e", "s", "c", "r", "i", "p", "t", "i", "o", "n">>
w_text == <<"t", "e", "x", "t">>
w_message == <<"m", "e", "s", "s", "a", "g", "e">>
w_items == <<"i", "t", "e", "m", "s">>
w_elements == <<"e", "l", "e", "m", "e", "n", "t", "s">>
w_data == <<"d", "a", "t", "a">>
w_config == <<"c", "o", "n", "f", "i", "g">>
w_settings == <<"s", "e", "t", "t", "i", "n", "g", "s">>
w_options == <<"o", "p", "t", "i", "o", "n", "s">>
w_path == <<"p", "a", "t", "h">>
w_file == <<"f", "i", "l", "e">>
w_filename == <<"f", "i", "l", "e", "n", "a", "m", "e">>
w_filepath == <<"f", "i", "l", "e", "p", "a", "t", "h">>

\* ConfidenceLevel
HIGH == "high"
MEDIUM == "medium"
LOW == "low"
UNKNOWN == "unknown"

\* InferredType(type_string, confidence, source, alternatives); the source
\* is a tag: the text the code interpolates into it is left out
InferredType(type_string, confidence, source_tag, alternatives) ==
    [type_string |-> type_string, confidence |-> confidence, source |-> source_tag,
     alternatives |-> alternatives]

\* ast expressions, by the class of the node
Constant(value_type) == [kind |-> "Constant", value_type |-> value_type]
ListExpr(elts) == [kind |-> "List", elts |-> elts]
DictExpr(keys, values) == [kind |-> "Dict", keys |-> keys, values |-> values]
SetExpr == [kind |-> "Set"]
TupleExpr(elts) == [kind |-> "Tuple", elts |-> elts]
ListComp(elt) == [kind |-> "ListComp", elt |-> elt]
DictComp(key, value) == [kind |-> "DictComp", key |-> key, value |-> value]
SetComp(elt) == [kind |-> "SetComp", elt |-> elt]
GeneratorExp(elt) == [kind |-> "GeneratorExp", elt |-> elt]
BinOp(left, op, right) == [kind |-> "BinOp", left |-> left, op |-> op, right |-> right]
UnaryOp(op, operand) == [kind |-> "UnaryOp", op |-> op, operand |-> operand]
CompareExpr == [kind |-> "Compare"]
BoolOpExpr == [kind |-> "BoolOp"]
\* a call f(...) or o.f(...): func_name is f, None when the callee is neither
\* a name nor an attribute
CallExpr(func_name) == [kind |-> "Call", func_name |-> func_name]
AttributeExpr == [kind |-> "Attribute"]
NameExpr(id) == [kind |-> "Name", id |-> id]
LambdaExpr == [kind |-> "Lambda"]
\* any other expression: a subscript, a conditional expression, an f-string
OtherExpr == [kind |-> "Other"]

\* self._builtin_types: the names of builtins that are types (those the
\* model's names can hit)
BuiltinTypes == {t_int, t_float, t_str, t_bool, t_list, t_dict, t_set, t_tuple, t_bytes,
                 t_type, t_range}

\* TypeInferencer._infer_from_constant
InferFromConstant(const) ==
    CASE const.value_type = "None" -> InferredType(t_None, HIGH, "none_literal", << >>)
      [] const.value_type = "bool" -> InferredType(t_bool, HIGH, "bool_literal", << >>)
      [] const.value_type = "int" -> InferredType(t_int, HIGH, "int_literal", << >>)
      [] const.value_type = "float" -> InferredType(t_float, HIGH, "float_literal", << >>)
      [] const.value_type = "str" -> InferredType(t_str, HIGH, "str_literal", << >>)
      [] const.value_type = "bytes" -> InferredType(t_bytes, HIGH, "bytes_literal", << >>)
      [] OTHER -> InferredType(t_Any, LOW, "unknown_constant", << >>)

\* TypeInferencer._infer_from_name
InferFromName(name) ==
    LET name_lower == Lower(name)
    IN  IF EndsWith(name_lower, x__id)
            \/ name_lower \in {w_id, w_count, w_index, w_size, w_length}
        THEN InferredType(t_int, LOW, "name_convention_int", << >>)
        ELSE IF EndsWith(name_lower, x__name)
            \/ name_lower \in {w_name, w_title, w_description, w_text, w_message}
        THEN InferredType(t_str, LOW, "name_convention_str", << >>)
        ELSE IF StartsWithAny(name_lower, {x_is_, x_has_, x_can_})
        THEN InferredType(t_bool, LOW, "name_convention_bool", << >>)
        ELSE IF EndsWith(name_lower, x__list) \/ EndsWith(name_lower, x_s)
            \/ name_lower \in {w_items, w_elements}
        THEN InferredType(t_list, LOW, "name_convention_list", << >>)
        ELSE IF EndsWith(name_lower, x__dict)
            \/ name_lower \in {w_data, w_config, w_settings, w_options}
        THEN InferredType(t_dict, LOW, "name_convention_dict", << >>)
        ELSE IF EndsWith(name_lower, x__set)
        THEN InferredType(t_set, LOW, "name_convention_set", << >>)
        ELSE IF EndsWith(name_lower, x__tuple)
        THEN InferredType(t_tuple, LOW, "name_convention_tuple", << >>)
        ELSE IF EndsWith(name_lower, x__path)
            \/ name_lower \in {w_path, w_file, w_filename, w_filepath}
        THEN InferredType(t_str_Path, LOW, "name_convention_path", << >>)
        ELSE InferredType(t_Any, UNKNOWN, "no_name_pattern", << >>)

\* the type_constructors table of _infer_from_call
TypeConstructors ==
    [int |-> t_int, float |-> t_float, str |-> t_str, bool |-> t_bool, list |-> t_list,
     dict |-> t_dict, set |-> t_set, tuple |-> t_tuple, bytes |-> t_bytes,
     bytearray |-> t_bytearray, frozenset |-> t_frozenset]

\* the known_returns table of _infer_from_call (the entries whose type is
\* one of the model's type strings)
KnownReturns ==
    [len |-> t_int, sorted |-> t_list, abs |-> t_int, max |-> t_Any, min |-> t_Any,
     sum |-> t_int, all |-> t_bool, any |-> t_bool, isinstance |-> t_bool,
     getattr |-> t_Any, setattr |-> t_None, repr |-> t_str, print |-> t_None,
     range |-> t_range, open |-> t_TextIOWrapper, type |-> t_type]

\* TypeInferencer._infer_from_call
InferFromCall(expr) ==
    LET func_name == expr.func_name
        f == Get(func_name)
    IN  IF IsNone(func_name) THEN InferredType(t_Any, LOW, "unknown_call", << >>)
        ELSE IF f \in DOMAIN TypeConstructors
        THEN InferredType(TypeConstructors[f], HIGH, "constructor", << >>)
        ELSE IF f \in DOMAIN KnownReturns
        THEN InferredType(KnownReturns[f], HIGH, "builtin", << >>)
        ELSE IF f \in {"strip", "lstrip", "rstrip", "lower", "upper", "title",
                       "capitalize", "replace", "join", "format", "center", "ljust",
                       "rjust", "zfill", "expandtabs", "translate", "swapcase",
                       "casefold"}
        THEN InferredType(t_str, MEDIUM, "str_method", << >>)
        ELSE IF f \in {"startswith", "endswith", "isalpha", "isdigit", "isalnum",
                       "isascii", "isdecimal", "isnumeric", "isidentifier", "islower",
                       "isupper", "isspace", "istitle", "isprintable"}
        THEN InferredType(t_bool, MEDIUM, "str_method", << >>)
        ELSE IF f \in {"count", "find", "rfind", "index", "rindex"}
        THEN InferredType(t_int, MEDIUM, "str_method", << >>)
        ELSE IF f \in {"split", "rsplit", "splitlines", "partition", "rpartition"}
        THEN InferredType(t_list_str, MEDIUM, "str_method", << >>)
        ELSE IF f \in {"append", "extend", "insert", "remove", "pop", "clear", "sort",
                       "reverse"}
        THEN InferredType(t_None, MEDIUM, "list_method", << >>)
        ELSE IF f = "keys" THEN InferredType(t_dict_keys, MEDIUM, "dict_keys", << >>)
        ELSE IF f = "values" THEN InferredType(t_dict_values, MEDIUM, "dict_values", << >>)
        ELSE IF f = "items" THEN InferredType(t_dict_items, MEDIUM, "dict_items", << >>)
        ELSE IF f \in {"get", "pop", "popitem", "setdefault", "update", "clear"}
        THEN InferredType(t_Any, LOW, "dict_method", << >>)
        ELSE InferredType(t_Any, LOW, "function_call", << >>)

Arithmetic == {"Add", "Sub", "Mult", "Div", "FloorDiv", "Mod", "Pow"}
Bitwise == {"BitOr", "BitXor", "BitAnd", "LShift", "RShift"}

RECURSIVE InferFromExpression(_)

\* TypeInferencer._infer_from_binop
InferFromBinop(binop) ==
    LET left_type == InferFromExpression(binop.left)
        right_type == InferFromExpression(binop.right)
        numbers == /\ left_type.type_string \in {t_int, t_float}
                   /\ right_type.type_string \in {t_int, t_float}
    IN  IF binop.op \in Arithmetic /\ numbers
        THEN (IF left_type.type_string = t_float \/ right_type.type_string = t_float
              THEN InferredType(t_float, HIGH, "arithmetic_float", << >>)
              ELSE InferredType(t_int, HIGH, "arithmetic_int", << >>))
        ELSE IF binop.op = "Add" /\ left_type.type_string = t_str
        THEN InferredType(t_str, HIGH, "string_concat", << >>)
        ELSE IF binop.op = "Add" /\ StartsWith(left_type.type_string, t_list)
        THEN left_type
        ELSE IF binop.op \in Bitwise
        THEN InferredType(t_int, HIGH, "bitwise_operation", << >>)
        ELSE InferredType(t_Any, LOW, "unknown_binop", << >>)

\* TypeInferencer._infer_from_unaryop
InferFromUnaryop(unaryop) ==
    LET operand_type == InferFromExpression(unaryop.operand)
    IN  IF unaryop.op = "Not" THEN InferredType(t_bool, HIGH, "not_operation", << >>)
        ELSE IF unaryop.op \in {"UAdd", "USub"}
        THEN (IF operand_type.type_string \in {t_int, t_float} THEN operand_type
              ELSE InferredType(t_int, MEDIUM, "unary_arithmetic", << >>))
        ELSE IF unaryop.op = "Invert"
        THEN InferredType(t_int, HIGH, "bitwise_invert", << >>)
        ELSE operand_type

\* TypeInferencer._infer_from_expression
InferFromExpression(expr) ==
    CASE expr.kind = "Constant" -> InferFromConstant(expr)
      [] expr.kind = "List" ->
            LET first == Min(3, Len(expr.elts))
                element_types == [i \in 1..first |-> InferFromExpression(expr.elts[i])]
            IN  IF expr.elts # << >>
                   /\ \A i \in 1..first :
                         element_types[i].type_string = element_types[1].type_string
                THEN InferredType(t_list_open \o element_types[1].type_string \o t_close,
                                  HIGH, "list_literal", << >>)
                ELSE InferredType(t_list, HIGH, "list_literal", << >>)
      [] expr.kind = "Dict" ->
            IF expr.keys # << >> /\ expr.values # << >>
            THEN InferredType(t_dict_open
                                  \o InferFromExpression(expr.keys[1]).type_string
                                  \o t_comma
                                  \o InferFromExpression(expr.values[1]).type_string
                                  \o t_close,
                              HIGH, "dict_literal", << >>)
            ELSE InferredType(t_dict, HIGH, "dict_literal", << >>)
      [] expr.kind = "Set" -> InferredType(t_set, HIGH, "set_literal", << >>)
      [] expr.kind = "Tuple" ->
            IF expr.elts # << >>
            THEN InferredType(t_tuple_open
                                  \o Join([i \in 1..Len(expr.elts) |->
                                              InferFromExpression(expr.elts[i]).type_string],
                                          t_comma)
                                  \o t_close,
                              HIGH, "tuple_literal", << >>)
            ELSE InferredType(t_tuple, HIGH, "tuple_literal", << >>)
      [] expr.kind = "ListComp" ->
            InferredType(t_list_open \o InferFromExpression(expr.elt).type_string
                             \o t_close, MEDIUM, "list_comprehension", << >>)
      [] expr.kind = "DictComp" ->
            InferredType(t_dict_open \o InferFromExpression(expr.key).type_string
                             \o t_comma \o InferFromExpression(expr.value).type_string
                             \o t_close, MEDIUM, "dict_comprehension", << >>)
      [] expr.kind = "SetComp" ->
            InferredType(t_set_open \o InferFromExpression(expr.elt).type_string
                             \o t_close, MEDIUM, "set_comprehension", << >>)
      [] expr.kind = "BinOp" -> InferFromBinop(expr)
      [] expr.kind = "Compare" -> InferredType(t_bool, HIGH, "comparison", << >>)
      [] expr.kind = "BoolOp" -> InferredType(t_bool, HIGH, "bool_operation", << >>)
      [] expr.kind = "UnaryOp" -> InferFromUnaryop(expr)
      [] expr.kind = "Call" -> InferFromCall(expr)
      [] expr.kind = "Attribute" -> InferredType(t_Any, LOW, "attribute_access", << >>)
      [] expr.kind = "Name" ->
            IF expr.id \in BuiltinTypes
            THEN InferredType(expr.id, MEDIUM, "builtin_type", << >>)
            ELSE InferFromName(expr.id)
      [] expr.kind = "Lambda" -> InferredType(t_Callable, MEDIUM, "lambda", << >>)
      [] expr.kind = "GeneratorExp" ->
            InferredType(t_Generator_open \o InferFromExpression(expr.elt).type_string
                             \o t_Generator_close, MEDIUM, "generator_expression", << >>)
      [] OTHER -> InferredType(t_Any, UNKNOWN, "unknown_expression", << >>)

n_value == <<"v", "a", "l", "u", "e">>
n_obj == <<"o", "b", "j">>
n_other == <<"o", "t", "h", "e", "r">>

\* a function body as ast.walk sees it: the isinstance calls with a name as
\* first argument and a second argument, in walk order; the attribute
\* accesses o.attr on a name o (a method call o.m() holds the attribute
\* o.m); the binary operations with their name operands; the names o that
\* are subscripted
FuncBody(isinstance_calls, attributes, binops, subscripts) ==
    [isinstance_calls |-> isinstance_calls, attributes |-> attributes,
     binops |-> binops, subscripts |-> subscripts]
IsinstanceCall(arg, type_arg) == [arg |-> arg, type_arg |-> type_arg]
\* the type argument: a name, a tuple (ids of its elements that are names),
\* or some other expression
TypeName(id) == [kind |-> "Name", id |-> id]
TypeTuple(ids) == [kind |-> "Tuple", ids |-> ids]
TypeOther == [kind |-> "Other"]
AttributeOn(value, attr) == [value |-> value, attr |-> attr]
BinOpOn(left, op, right) == [left |-> left, op |-> op, right |-> right]

\* TypeInferencer._infer_from_isinstance: None or the type of the first
\* isinstance check on the parameter that names a type
RECURSIVE InferFromIsinstance(_, _)
InferFromIsinstance(param_name, isinstance_calls) ==
    IF isinstance_calls = << >> THEN None
    ELSE LET node == Head(isinstance_calls)
             type_arg == node.type_arg
         IN  IF node.arg = param_name /\ type_arg.kind = "Name"
             THEN Some(InferredType(type_arg.id, HIGH, "isinstance_check", << >>))
             ELSE IF node.arg = param_name /\ type_arg.kind = "Tuple"
                     /\ type_arg.ids # << >>
             THEN Some(InferredType(Join(type_arg.ids, t_bar), HIGH, "isinstance_union",
                                    type_arg.ids))
             ELSE InferFromIsinstance(param_name, Tail(isinstance_calls))

\* TypeInferencer._infer_from_usage
InferFromUsage(param_name, func_body) ==
    LET method_calls == {a.attr : a \in {b \in func_body.attributes : b.value = param_name}}
        operations ==
            {b.op : b \in {c \in func_body.binops :
                              c.left = Some(param_name) \/ c.right = Some(param_name)}}
            \cup (IF param_name \in func_body.subscripts THEN {"subscript"} ELSE {})
    IN  IF method_calls \cap {"strip", "lower", "upper", "split", "replace",
                              "startswith", "endswith"} # {}
        THEN InferredType(t_str, MEDIUM, "string_methods_used", << >>)
        ELSE IF method_calls \cap {"append", "extend", "pop", "remove", "insert",
                                   "index", "count"} # {}
        THEN InferredType(t_list, MEDIUM, "list_methods_used", << >>)
        ELSE IF method_calls \cap {"keys", "values", "items", "get", "update",
                                   "setdefault"} # {}
        THEN InferredType(t_dict, MEDIUM, "dict_methods_used", << >>)
        ELSE IF method_calls \cap {"add", "remove", "discard", "union", "intersection",
                                   "difference"} # {}
        THEN InferredType(t_set, MEDIUM, "set_methods_used", << >>)
        ELSE IF "subscript" \in operations
        THEN (IF method_calls \cap {"keys", "values", "items"} # {}
              THEN InferredType(t_dict, MEDIUM, "dict_subscript", << >>)
              ELSE InferredType(t_Sequence, LOW, "subscript_access", << >>))
        ELSE IF "Add" \in operations
        THEN InferredType(t_int_str_list, LOW, "addition_operator", << >>)
        ELSE InferredType(t_Any, UNKNOWN, "no_clear_usage", << >>)

\* infer_param_type with the naming convention tried before the usage scan
InferParamTypeNameBeforeUsage(param_name, default, func_body) ==
    LET default_type == InferFromExpression(Get(default))
        isinstance_type == InferFromIsinstance(param_name, Get(func_body).isinstance_calls)
        usage_type == InferFromUsage(param_name, Get(func_body))
        name_type == InferFromName(param_name)
    IN  IF ~IsNone(default) /\ default_type.confidence # UNKNOWN
        THEN [default_type EXCEPT !.source = "default_value"]
        ELSE IF ~IsNone(func_body) /\ ~IsNone(isinstance_type)
        THEN Get(isinstance_type)
        ELSE IF name_type.confidence # UNKNOWN
        THEN name_type
        ELSE IF ~IsNone(func_body) THEN usage_type
        ELSE name_type

\* TypeInferencer.infer_param_type: default is None or the default
\* expression, func_body None or the body
InferParamType(param_name, default, func_body) ==
    LET default_type == InferFromExpression(Get(default))
        isinstance_type == InferFromIsinstance(param_name, Get(func_body).isinstance_calls)
        usage_type == InferFromUsage(param_name, Get(func_body))
    IN  IF ~IsNone(default) /\ default_type.confidence # UNKNOWN
        THEN [default_type EXCEPT !.source = "default_value"]
        ELSE IF ~IsNone(func_body) /\ ~IsNone(isinstance_type)
        THEN Get(isinstance_type)
        ELSE IF ~IsNone(func_body) /\ usage_type.confidence # UNKNOWN
        THEN usage_type
        ELSE InferFromName(param_name)

\* the order of str: code points, for the characters of the type strings
CharOrder == <<" ", ",">> \o UpperCase \o <<"[", "]", "_">> \o LowerCase \o <<"|">>
Ord(c) == CHOOSE k \in 1..Len(CharOrder) : CharOrder[k] = c

\* a < b on str
RECURSIVE StrLess(_, _)
StrLess(a, b) ==
    IF a = << >> THEN b # << >>
    ELSE IF b = << >> THEN FALSE
    ELSE IF Head(a) = Head(b) THEN StrLess(Tail(a), Tail(b))
    ELSE Ord(Head(a)) < Ord(Head(b))

\* sorted(strings)
RECURSIVE Sorted(_)
Sorted(strings) ==
    IF strings = {} THEN << >>
    ELSE LET least == CHOOSE x \in strings : \A y \in strings \ {x} : StrLess(x, y)
         IN  <<least>> \o Sorted(strings \ {least})

\* the lists list(set(...)) can build: the members in any order (the order
\* follows the hashes of the strings, which change from run to run)
Orderings(members) ==
    {order \in [1..Cardinality(members) -> members] : Range(order) = members}

\* a function definition: the values of its return statements, None for a
\* bare return
FuncNode(returns) == [returns |-> returns]

\* inferred_types of infer_return_type: the type string of every return
\* statement that has a value
RECURSIVE InferredTypes(_)
InferredTypes(returns) ==
    IF returns = << >> THEN << >>
    ELSE IF IsNone(Head(returns)) THEN InferredTypes(Tail(returns))
    ELSE <<InferFromExpression(Get(Head(returns))).type_string>>
             \o InferredTypes(Tail(returns))

\* set(inferred_types)
UniqueTypes(func_node) == Range(InferredTypes(func_node.returns))

\* infer_return_type without the numeric widening
InferReturnTypeNoWidening(func_node, unique_types) ==
    LET inferred_types == InferredTypes(func_node.returns)
        non_none_types == SelectSeq(unique_types, LAMBDA t : t # t_None)
    IN  IF inferred_types = << >>
        THEN InferredType(t_None, HIGH, "no_return_statements", << >>)
        ELSE IF Len(unique_types) = 1
        THEN InferredType(unique_types[1], HIGH, "consistent_return_type", << >>)
        ELSE IF t_None \in Range(unique_types) /\ Len(non_none_types) = 1
        THEN InferredType(non_none_types[1] \o t_bar_None, MEDIUM, "optional_pattern",
                          <<non_none_types[1]>>)
        ELSE InferredType(Join(Sorted(Range(unique_types)), t_bar), MEDIUM,
                          "multiple_return_types", unique_types)

\* infer_return_type without the optional pattern
InferReturnTypeNoOptional(func_node, unique_types) ==
    LET inferred_types == InferredTypes(func_node.returns)
    IN  IF inferred_types = << >>
        THEN InferredType(t_None, HIGH, "no_return_statements", << >>)
        ELSE IF Len(unique_types) = 1
        THEN InferredType(unique_types[1], HIGH, "consistent_return_type", << >>)
        ELSE IF Range(unique_types) \subseteq {t_int, t_float}
        THEN InferredType(t_float, MEDIUM, "numeric_union", << >>)
        ELSE InferredType(Join(Sorted(Range(unique_types)), t_bar), MEDIUM,
                          "multiple_return_types", unique_types)

\* TypeInferencer.infer_return_type; unique_types is list(set(inferred_types))
InferReturnType(func_node, unique_types) ==
    LET inferred_types == InferredTypes(func_node.returns)
        non_none_types == SelectSeq(unique_types, LAMBDA t : t # t_None)
    IN  IF inferred_types = << >>
        THEN InferredType(t_None, HIGH, "no_return_statements", << >>)
        ELSE IF Len(unique_types) = 1
        THEN InferredType(unique_types[1], HIGH, "consistent_return_type", << >>)
        ELSE IF Range(unique_types) \subseteq {t_int, t_float}
        THEN InferredType(t_float, MEDIUM, "numeric_union", << >>)
        ELSE IF t_None \in Range(unique_types) /\ Len(non_none_types) = 1
        THEN InferredType(non_none_types[1] \o t_bar_None, MEDIUM, "optional_pattern",
                          <<non_none_types[1]>>)
        ELSE InferredType(Join(Sorted(Range(unique_types)), t_bar), MEDIUM,
                          "multiple_return_types", unique_types)

\* 1 + 1 + ... + 1 with more terms than the interpreter's recursion limit
\* leaves frames for: a chain of BinOp nodes nested in their left operands
\* (left stands for the rest of the chain)
DeepBinOp ==
    [kind |-> "BinOp", left |-> Constant("int"), op |-> "Add", right |-> Constant("int"),
     too_deep |-> TRUE]

\* _infer_from_expression raises RecursionError: it calls itself, through
\* _infer_from_binop, once for every BinOp of the chain, and nothing in the
\* module catches an exception; only the sub-expressions the inference
\* visits count
RECURSIVE InferFromExpressionRaises(_)
InferFromExpressionRaises(expr) ==
    CASE expr.kind = "BinOp" ->
            \/ "too_deep" \in DOMAIN expr
            \/ InferFromExpressionRaises(expr.left)
            \/ InferFromExpressionRaises(expr.right)
      [] expr.kind = "List" ->
            \E i \in 1..Min(3, Len(expr.elts)) : InferFromExpressionRaises(expr.elts[i])
      [] expr.kind = "Dict" ->
            /\ expr.keys # << >> /\ expr.values # << >>
            /\ \/ InferFromExpressionRaises(expr.keys[1])
               \/ InferFromExpressionRaises(expr.values[1])
      [] expr.kind = "Tuple" ->
            \E i \in 1..Len(expr.elts) : InferFromExpressionRaises(expr.elts[i])
      [] expr.kind \in {"ListComp", "SetComp", "GeneratorExp"} ->
            InferFromExpressionRaises(expr.elt)
      [] expr.kind = "DictComp" ->
            InferFromExpressionRaises(expr.key) \/ InferFromExpressionRaises(expr.value)
      [] expr.kind = "UnaryOp" -> InferFromExpressionRaises(expr.operand)
      [] OTHER -> FALSE

\* infer_param_type raises: the default is the only expression it infers
\* from (the body is walked with ast.walk, which does not recurse)
InferParamTypeRaises(default) ==
    ~IsNone(default) /\ InferFromExpressionRaises(Get(default))

\* infer_return_type raises: on a return statement whose value does
InferReturnTypeRaises(func_node) ==
    \E i \in 1..Len(func_node.returns) :
        /\ ~IsNone(func_node.returns[i])
        /\ InferFromExpressionRaises(Get(func_node.returns[i]))

\* ------------------------------------------- inputs of the type inference
InferredParamNames ==
    {n_user_id, n_config, n_settings, n_user_dict, n_is_dict, n_items, n_x, n_Count,
     n_file_path, n_first_name, n_values, n_options, n_value, n_obj}

Defaults ==
    {None, Some(Constant("int")), Some(Constant("None")), Some(OtherExpr),
     Some(NameExpr(n_x)), Some(ListExpr(<< >>)), Some(DeepBinOp)}

\* bodies that use the parameter p: none, or one whose statements hold
\* these uses
FuncBodies(p) ==
    {None,
     Some(FuncBody(<< >>, {}, {}, {})),
     Some(FuncBody(<< >>, {AttributeOn(p, "append")}, {}, {})),
     Some(FuncBody(<< >>, {AttributeOn(n_other, "append")}, {}, {})),
     Some(FuncBody(<<IsinstanceCall(p, TypeName(t_int))>>, {}, {}, {})),
     Some(FuncBody(<<IsinstanceCall(p, TypeTuple(<<t_int, t_str>>))>>,
                   {AttributeOn(p, "append")}, {}, {})),
     Some(FuncBody(<<IsinstanceCall(p, TypeOther), IsinstanceCall(p, TypeTuple(<< >>))>>,
                   {}, {}, {})),
     Some(FuncBody(<<IsinstanceCall(n_other, TypeName(t_int)),
                     IsinstanceCall(p, TypeName(t_str))>>,
                   {AttributeOn(p, "strip")}, {}, {})),
     Some(FuncBody(<<IsinstanceCall(n_other, TypeName(t_int))>>,
                   {AttributeOn(p, "strip"), AttributeOn(p, "append")}, {}, {})),
     Some(FuncBody(<< >>, {}, {}, {p})),
     Some(FuncBody(<< >>, {AttributeOn(p, "keys")}, {}, {p})),
     Some(FuncBody(<< >>, {AttributeOn(p, "real")}, {}, {p})),
     Some(FuncBody(<< >>, {}, {BinOpOn(Some(p), "Add", None)}, {})),
     Some(FuncBody(<< >>, {}, {BinOpOn(Some(n_other), "Mult", Some(p))}, {})),
     Some(FuncBody(<< >>, {AttributeOn(p, "remove")}, {}, {})),
     Some(FuncBody(<< >>, {AttributeOn(p, "add")}, {}, {}))}

\* the test's dict: {"id": user_id}
IdDict == DictExpr(<<Constant("str")>>, <<NameExpr(n_user_id)>>)

ReturnValues ==
    {None, Some(Constant("None")), Some(Constant("int")), Some(Constant("float")),
     Some(Constant("str")), Some(IdDict), Some(DictExpr(<< >>, << >>)),
     Some(CallExpr(Some("dict"))), Some(ListExpr(<<Constant("int")>>)),
     Some(BinOp(Constant("int"), "Div", Constant("float"))),
     Some(UnaryOp("USub", Constant("float"))), Some(OtherExpr), Some(DeepBinOp)}

\* expressions given to infer_from_usage: one of every class of node, and
\* some that hold others
Expressions ==
    {Constant(t) : t \in {"None", "bool", "int", "float", "str", "bytes", "other"}}
        \cup {ListExpr(<< >>), ListExpr(<<Constant("int"), Constant("str")>>),
              ListExpr(<<Constant("int"), Constant("int"), Constant("int"), DeepBinOp>>),
              ListExpr(<<Constant("int"), DeepBinOp>>),
              IdDict, DictExpr(<< >>, << >>), DictExpr(<<DeepBinOp>>, <<OtherExpr>>),
              SetExpr, TupleExpr(<< >>), TupleExpr(<<Constant("int"), OtherExpr>>),
              ListComp(OtherExpr), DictComp(Constant("str"), DeepBinOp),
              SetComp(Constant("int")), GeneratorExp(NameExpr(n_x)),
              BinOp(Constant("str"), "Add", OtherExpr),
              BinOp(ListExpr(<<Constant("int")>>), "Add", OtherExpr),
              BinOp(OtherExpr, "BitOr", OtherExpr), BinOp(OtherExpr, "Sub", OtherExpr),
              DeepBinOp, UnaryOp("Not", OtherExpr), UnaryOp("USub", OtherExpr),
              UnaryOp("Invert", DeepBinOp), CompareExpr, BoolOpExpr,
              CallExpr(None), CallExpr(Some("len")), CallExpr(Some("frozenset")),
              CallExpr(Some("my_function")), AttributeExpr, NameExpr(t_int),
              NameExpr(n_user_id), NameExpr(n_x), LambdaExpr, OtherExpr}

FewReturnValues ==
    {None, Some(Constant("None")), Some(Constant("int")), Some(Constant("float")),
     Some(IdDict), Some(DictExpr(<< >>, << >>))}

ReturnLists ==
    {<< >>} \cup {<<a>> : a \in ReturnValues}
        \cup {<<a, b>> : a \in ReturnValues, b \in ReturnValues}
        \cup {<<a, b, c>> : a \in FewReturnValues, b \in FewReturnValues,
                            c \in FewReturnValues}

\* ------------------------------------------------------------ generator.py
\* the GeneratedDocstring of generate_for_element, by the element it is for
GeneratedDocstring(element) ==
    [element_name |-> element.name, element_type |-> element.element_type,
     parent_class |-> element.parent_class]

\* generate_for_element raises on the element: failing holds the
\* (parent_class, name) of the elements the provider or the validation of
\* the generated text fails on
GenerationFails(element, failing) == <<element.parent_class, element.name>> \in failing

\* the loop over element.methods of generate_for_file, which is the same
\* under a skipped class and under a generated one: a failure is logged and
\* the loop goes on
RECURSIVE GenerateForMethods(_, _, _, _)
GenerateForMethods(methods, include_private, overwrite_existing, failing) ==
    IF methods = << >> THEN << >>
    ELSE LET method == Head(methods)
             rest == GenerateForMethods(Tail(methods), include_private,
                                        overwrite_existing, failing)
         IN  IF ~include_private /\ ~method.is_public THEN rest
             ELSE IF HasDocstring(method) /\ ~overwrite_existing THEN rest
             ELSE IF GenerationFails(method, failing) THEN rest
             ELSE <<GeneratedDocstring(method)>> \o rest

\* the loop over result.elements of generate_for_file; a class whose own
\* generation fails loses its methods too, the handler being around both
RECURSIVE GenerateForElements(_, _, _, _)
GenerateForElements(elements, include_private, overwrite_existing, failing) ==
    IF elements = << >> THEN << >>
    ELSE LET element == Head(elements)
             rest == GenerateForElements(Tail(elements), include_private,
                                         overwrite_existing, failing)
             methods ==
                 IF element.element_type = CLASS
                 THEN GenerateForMethods(element.methods, include_private,
                                         overwrite_existing, failing)
                 ELSE << >>
         IN  IF HasDocstring(element) /\ ~overwrite_existing THEN methods \o rest
             ELSE IF GenerationFails(element, failing) THEN rest
             ELSE <<GeneratedDocstring(element)>> \o methods \o rest

\* DocstringGenerator.generate_for_file on a file that parses: the parser's
\* extract_private is set to include_private; the analysis of the elements,
\* when there is an analyzer, changes nothing the loop reads
GenerateForFile(tree, include_private, overwrite_existing, failing) ==
    GenerateForElements(ParseFile(tree, include_private).elements, include_private,
                        overwrite_existing, failing)

\* -------------------------------------------------- inputs of the generator
s_Doc == <<"D", "o", "c", ".">>

\* no docstring, """""", """  """, """Doc."""
DocstringChoices == {None, Some(<< >>), Some(<<" ", " ">>), Some(s_Doc)}

DocFunctions ==
    {[FunctionDef("FunctionDef", name, << >>, UntypedArgs(1), None, PlainBody)
         EXCEPT !.docstring = d] :
        name \in {s_process_data, s__helper}, d \in DocstringChoices}

DocMethod(name, d) ==
    [FunctionDef("FunctionDef", name, << >>, SelfArgs(0), None, PlainBody)
        EXCEPT !.docstring = d]

\* class Plain with the methods run, execute and _run
DocClasses ==
    {[ClassDef(s_Plain, << >>,
               <<DocMethod(s_run, d1), DocMethod(s_execute, d2), DocMethod(s__run, d3)>>, {})
         EXCEPT !.docstring = d] :
        d \in DocstringChoices, d1 \in DocstringChoices, d2 \in {None, Some(s_Doc)},
        d3 \in {None, Some(s_Doc)}}

DocFiles ==
    {<<n>> : n \in DocFunctions \cup DocClasses}
        \cup {<<c, f>> : c \in {k \in DocClasses : k.body[2].docstring = None
                                                    /\ k.body[3].docstring = None},
                         f \in {g \in DocFunctions : g.name = s_process_data}}

\* the elements generate_for_element fails on
FailingChoices ==
    {{}, {<<None, s_Plain>>}, {<<Some(s_Plain), s_run>>}, {<<None, s_process_data>>}}

\* ------------------------------------------------------ the function calls
Calls ==
    {[fn |-> "_get_module_path", file_path |-> parts] : parts \in FilePaths}
        \cup UNION {{[fn |-> "infer_param_type", param |-> p, default |-> d,
                       func_body |-> b] : d \in Defaults, b \in FuncBodies(p)} :
                         p \in InferredParamNames}
        \cup {[fn |-> "infer_return_type", func_node |-> FuncNode(returns)] :
                 returns \in ReturnLists}
        \cup {[fn |-> "infer_from_usage", node |-> expr] : expr \in Expressions}
        \cup {[fn |-> "generate_for_file", file_path |-> tree, include_private |-> p,
               overwrite_existing |-> o, failing |-> f] :
                 tree \in DocFiles, p \in BOOLEAN, o \in BOOLEAN, f \in FailingChoices}

CallInit ==
    /\ call \in Calls
    /\ returned = None
    /\ source = "ok" /\ file = << >> /\ extract_private = FALSE
    /\ analyzer = [calculate_complexity |-> TRUE, infer_types |-> TRUE,
                   detect_patterns |-> TRUE]
    /\ result = None /\ parsed_private = FALSE /\ raised = None
    /\ lastOp = Op("init", << >>)
    /\ NoDisk
    /\ NoServer

Engine ==
    <<source, file, extract_private, result, parsed_private, analyzer, lastOp, Disk,
      server>>

RecursionError == Some("RecursionError")

\* PythonParser._get_module_path
GetModulePathCall ==
    /\ call.fn = "_get_module_path" /\ IsNone(returned)
    /\ returned' = Some(GetModulePath(call.file_path))
    /\ UNCHANGED <<call, raised, Engine>>

\* infer_param_type(param, default, func_body)
InferParamTypeCall ==
    /\ call.fn = "infer_param_type" /\ IsNone(returned) /\ IsNone(raised)
    /\ IF InferParamTypeRaises(call.default)
       THEN raised' = RecursionError /\ UNCHANGED returned
       ELSE /\ returned' = Some(InferParamType(call.param, call.default, call.func_body))
            /\ UNCHANGED raised
    /\ UNCHANGED <<call, Engine>>

\* infer_return_type(func_node)
InferReturnTypeCall ==
    /\ call.fn = "infer_return_type" /\ IsNone(returned) /\ IsNone(raised)
    /\ IF InferReturnTypeRaises(call.func_node)
       THEN raised' = RecursionError /\ UNCHANGED returned
       ELSE /\ \E unique_types \in Orderings(UniqueTypes(call.func_node)) :
                   returned' = Some(InferReturnType(call.func_node, unique_types))
            /\ UNCHANGED raised
    /\ UNCHANGED <<call, Engine>>

\* TypeInferencer.infer_from_usage(node)
InferFromUsageCall ==
    /\ call.fn = "infer_from_usage" /\ IsNone(returned) /\ IsNone(raised)
    /\ IF InferFromExpressionRaises(call.node)
       THEN raised' = RecursionError /\ UNCHANGED returned
       ELSE returned' = Some(InferFromExpression(call.node)) /\ UNCHANGED raised
    /\ UNCHANGED <<call, Engine>>

\* DocstringGenerator.generate_for_file(file_path, None, include_private,
\* overwrite_existing)
GenerateForFileCall ==
    /\ call.fn = "generate_for_file" /\ IsNone(returned)
    /\ returned' = Some(GenerateForFile(call.file_path, call.include_private,
                                        call.overwrite_existing, call.failing))
    /\ UNCHANGED <<call, raised, Engine>>

CallNext ==
    \/ GetModulePathCall
    \/ InferParamTypeCall
    \/ InferReturnTypeCall
    \/ InferFromUsageCall
    \/ GenerateForFileCall

CallSpec == CallInit /\ [][CallNext]_vars

\* ------------------------------------------------------------- file_ops.py
\* PurePath.suffix: the name from its last dot on, unless that dot opens or
\* closes the name
Suffix(name) ==
    LET dots == {i \in 1..Len(name) : name[i] = "."}
        last == IF dots = {} THEN 0 ELSE CHOOSE i \in dots : \A j \in dots : j <= i
    IN IF 1 < last /\ last < Len(name) THEN SubSeq(name, last, Len(name)) ELSE << >>

\* PurePath.with_suffix
WithSuffix(name, suffix) == SubSeq(name, 1, Len(name) - Len(Suffix(name))) \o suffix

\* file_path.with_suffix(file_path.suffix + self.backup_suffix)
BackupPath(ops, file_path) == WithSuffix(file_path, Suffix(file_path) \o ops.backup_suffix)

\* Path.exists
Exists(fs, file_path) == ~IsNone(fs[file_path])

\* how a call ends: the directory afterwards, the exception, the value returned
Outcome(fs, exception, value) == [files |-> fs, raised |-> exception, returned |-> value]

\* a backup_file that keeps a backup that is already there
BackupFileKeepingOldBackup(fs, ops, file_path) ==
    IF ~Exists(fs, file_path) THEN Outcome(fs, Some("FileNotFoundError"), None)
    ELSE LET backup_path == BackupPath(ops, file_path)
         IN IF ops.dry_run \/ Exists(fs, backup_path)
            THEN Outcome(fs, None, Some(backup_path))
            ELSE Outcome([fs EXCEPT ![backup_path] = fs[file_path]], None,
                         Some(backup_path))

\* FileOperations.backup_file
BackupFile(fs, ops, file_path) ==
    IF ~Exists(fs, file_path) THEN Outcome(fs, Some("FileNotFoundError"), None)
    ELSE LET backup_path == BackupPath(ops, file_path)
         IN IF ops.dry_run
            THEN Outcome(fs, None, Some(backup_path))
            ELSE Outcome([fs EXCEPT ![backup_path] = fs[file_path]], None,
                         Some(backup_path))

\* FileOperations.restore_backup
RestoreBackup(fs, ops, file_path) ==
    LET backup_path == BackupPath(ops, file_path)
    IN IF ~Exists(fs, backup_path) THEN Outcome(fs, Some("FileNotFoundError"), None)
       ELSE IF ops.dry_run THEN Outcome(fs, None, Some(None))
       ELSE Outcome([fs EXCEPT ![file_path] = fs[backup_path]], None, Some(None))

\* a remove_backup that does not look at dry_run
RemoveBackupWhateverDryRun(fs, ops, file_path) ==
    LET backup_path == BackupPath(ops, file_path)
    IN IF Exists(fs, backup_path)
       THEN Outcome([fs EXCEPT ![backup_path] = None], None, Some(None))
       ELSE Outcome(fs, None, Some(None))

\* FileOperations.remove_backup
RemoveBackup(fs, ops, file_path) ==
    LET backup_path == BackupPath(ops, file_path)
    IN IF Exists(fs, backup_path) /\ ~ops.dry_run
       THEN Outcome([fs EXCEPT ![backup_path] = None], None, Some(None))
       ELSE Outcome(fs, None, Some(None))

\* the content of a file: text that ast.parse accepts or not, and, when it does,
\* the functions at the top of the module with their docstrings
Content(valid, defs) == [valid |-> valid, defs |-> defs]

\* FileOperations._find_node without parent_class: the index of the first
\* top-level definition of that name, 0 for None
FindNode(content, element_name) ==
    LET found == {i \in 1..Len(content.defs) : content.defs[i].name = element_name}
    IN IF found = {} THEN 0 ELSE CHOOSE i \in found : \A j \in found : i <= j

\* FileOperations._insert_docstring_at_node: the docstring of the node is
\* replaced, or inserted when there is none
InsertDocstringAtNode(content, node, docstring) ==
    [content EXCEPT !.defs[node].docstring = Some(docstring)]

\* FileOperations.insert_docstring
InsertDocstring(fs, ops, file_path, element_name, docstring) ==
    IF ~Exists(fs, file_path) THEN Outcome(fs, Some("FileNotFoundError"), None)
    ELSE LET original_content == Get(fs[file_path])
             target_node == FindNode(original_content, element_name)
             modified_content ==
                 InsertDocstringAtNode(original_content, target_node, docstring)
         IN IF ~original_content.valid THEN Outcome(fs, Some("SyntaxError"), None)
            ELSE IF target_node = 0 THEN Outcome(fs, None, Some(FALSE))
            ELSE IF modified_content = original_content
            THEN Outcome(fs, None, Some(FALSE))
            ELSE IF ~ops.dry_run
            THEN Outcome([fs EXCEPT ![file_path] = Some(modified_content)], None,
                         Some(TRUE))
            ELSE Outcome(fs, None, Some(TRUE))

\* ------------------------------------------- inputs of the file operations
s_Other == <<"O", "t", "h", "e", "r", ".">>

\* the files the caller names, and every file of the directory
TargetPaths == {s_mod_py, s_mod_py \o s_bak}
Paths == TargetPaths \cup {WithSuffix(p, Suffix(p) \o s_bak) : p \in TargetPaths}

PyModule(docstring) == Content(TRUE, <<[name |-> s_f, docstring |-> docstring]>>)
NotPython == Content(FALSE, << >>)
Contents == {NotPython, PyModule(None), PyModule(Some(s_Doc))}

ElementNames == {s_f, s_g}
InsertedDocstrings == {s_Doc, s_Other}

\* ------------------------------------------------------ the file operations
Parsing ==
    <<source, file, extract_private, result, parsed_private, analyzer, call, server>>

FileInit ==
    /\ files \in {fs \in [Paths -> {None} \cup {Some(c) : c \in Contents}] :
                      /\ Exists(fs, s_mod_py)
                      /\ \A p \in Paths \ TargetPaths : ~Exists(fs, p)}
    /\ file_ops \in [backup_suffix : {s_bak}, dry_run : BOOLEAN]
    /\ since_backup = None
    /\ raised = None /\ returned = None
    /\ lastOp = Op("init", << >>)
    /\ call = NoCall
    /\ source = "ok" /\ file = << >> /\ extract_private = FALSE
    /\ analyzer = [calculate_complexity |-> TRUE, infer_types |-> TRUE,
                   detect_patterns |-> TRUE]
    /\ result = None /\ parsed_private = FALSE
    /\ NoServer

\* what is known since the last backup_file that copied: the file, its content
\* then, whether it was modified, whether restore_backup copied it back. It is
\* forgotten as soon as any other file changes, and after the restore.
SinceBackup(name, file_path, out) ==
    IF name = "backup_file" /\ IsNone(out.raised) /\ ~file_ops.dry_run
    THEN Some([path |-> file_path, content |-> Get(files[file_path]),
               modified |-> FALSE, restored |-> FALSE])
    ELSE IF IsNone(since_backup) THEN None
    ELSE LET r == Get(since_backup)
         IN IF r.restored \/ \E p \in Paths \ {r.path} : out.files[p] # files[p]
            THEN None
            ELSE IF name = "restore_backup" /\ file_path = r.path /\ IsNone(out.raised)
            THEN Some([r EXCEPT !.restored = TRUE])
            ELSE IF out.files[r.path] # files[r.path]
            THEN Some([r EXCEPT !.modified = TRUE])
            ELSE since_backup

Ends(name, file_path, out) ==
    /\ files' = out.files
    /\ raised' = out.raised
    /\ returned' = out.returned
    /\ since_backup' = SinceBackup(name, file_path, out)
    /\ lastOp' = Op(name, file_path)
    /\ UNCHANGED <<file_ops, Parsing>>

BackupFileOp(file_path) ==
    Ends("backup_file", file_path, BackupFile(files, file_ops, file_path))

RestoreBackupOp(file_path) ==
    Ends("restore_backup", file_path, RestoreBackup(files, file_ops, file_path))

RemoveBackupOp(file_path) ==
    Ends("remove_backup", file_path, RemoveBackup(files, file_ops, file_path))

InsertDocstringOp(file_path, element_name, docstring) ==
    Ends("insert_docstring", file_path,
         InsertDocstring(files, file_ops, file_path, element_name, docstring))

\* the caller's own file_path.write_text(content)
WriteTextOp(file_path, content) ==
    Ends("write_text", file_path,
         Outcome([files EXCEPT ![file_path] = Some(content)], None, Some(None)))

FileNext ==
    \/ \E file_path \in TargetPaths : BackupFileOp(file_path)
    \/ \E file_path \in TargetPaths : RestoreBackupOp(file_path)
    \/ \E file_path \in TargetPaths : RemoveBackupOp(file_path)
    \/ \E file_path \in TargetPaths, element_name \in ElementNames,
          docstring \in InsertedDocstrings :
              InsertDocstringOp(file_path, element_name, docstring)
    \/ \E file_path \in TargetPaths, content \in Contents :
              WriteTextOp(file_path, content)

FileSpec == FileInit /\ [][FileNext]_vars

\* ---------------------------------------------------------- lsp/server.py
\* DocpilotLSPServer.stop
Stop(s) == [s EXCEPT !.running = FALSE]

\* what stdin holds next: a framed JSON-RPC message of some method, a line that
\* is no Content-Length header, or a frame whose content is no JSON
Message(method) == [kind |-> "message", method |-> method]
InvalidHeader == [kind |-> "invalid_header"]
InvalidContent == [kind |-> "invalid_content"]

\* DocpilotLSPServer._read_message: None at end of file, after a line that is
\* no header and after any exception; the input read is consumed
ReadMessage(stdin) ==
    IF stdin = << >> THEN None
    ELSE IF Head(stdin).kind = "message" THEN Some(Head(stdin))
    ELSE None

\* DocpilotLSPServer._handle_message: the server afterwards
HandleMessage(s, message) ==
    IF message.method = "initialized" THEN [s EXCEPT !.initialized = TRUE]
    ELSE IF message.method = "exit" THEN Stop(s)
    ELSE s

\* DocpilotLSPServer._handle_message: the response, None for a notification
Response(message) ==
    IF message.method \in {"initialized", "exit"} THEN None
    ELSE IF message.method \in {"initialize", "shutdown", "textDocument/codeAction",
                                "textDocument/hover", "textDocument/completion"}
    THEN Some([result |-> message.method])
    ELSE Some([error |-> "Method not found"])

\* ------------------------------------------------------ inputs of the server
Methods == {"initialize", "initialized", "shutdown", "exit", "textDocument/hover",
            "workspace/symbol"}
StdinItems == {Message(method) : method \in Methods} \cup {InvalidHeader, InvalidContent}
MaxInput == 3
BoundedSeq(S, n) == UNION {[1..k -> S] : k \in 0..n}

\* ------------------------------------------------------ the server's steps
\* server.pc: where start() is: "new" before the call, "while" at the test of
\* the loop, "read", "handle", "send" in its body, "returned" after finally
NotServing == <<source, file, extract_private, result, parsed_private, analyzer, lastOp,
                call, returned, raised, Disk>>

LspInit ==
    /\ \E stdin \in BoundedSeq(StdinItems, MaxInput) :
          server = [running |-> FALSE, initialized |-> FALSE, pc |-> "new",
                    stdin |-> stdin, message |-> None, response |-> None, sent |-> 0,
                    at_eof |-> FALSE, exit_handled |-> FALSE]
    /\ call = NoCall /\ returned = None /\ raised = None
    /\ lastOp = Op("init", << >>)
    /\ source = "ok" /\ file = << >> /\ extract_private = FALSE
    /\ analyzer = [calculate_complexity |-> TRUE, infer_types |-> TRUE,
                   detect_patterns |-> TRUE]
    /\ result = None /\ parsed_private = FALSE
    /\ NoDisk

\* start(): self.running = True, then the try block
StartOp ==
    /\ server.pc = "new"
    /\ server' = [server EXCEPT !.running = TRUE, !.pc = "while"]
    /\ UNCHANGED NotServing

\* while self.running: ... finally: self.running = False
WhileTest ==
    /\ server.pc = "while"
    /\ server' = IF server.running THEN [server EXCEPT !.pc = "read"]
                 ELSE [server EXCEPT !.running = FALSE, !.pc = "returned"]
    /\ UNCHANGED NotServing

\* message = self._read_message(); if message: ...
ReadMessageStep ==
    /\ server.pc = "read"
    /\ LET message == ReadMessage(server.stdin)
       IN server' = [server EXCEPT
                        !.message = message,
                        !.stdin = IF server.stdin = << >> THEN << >> ELSE Tail(server.stdin),
                        !.at_eof = server.stdin = << >>,
                        !.pc = IF IsNone(message) THEN "while" ELSE "handle"]
    /\ UNCHANGED NotServing

\* response = asyncio.run(self._handle_message(message)); if response: ...
HandleMessageStep ==
    /\ server.pc = "handle"
    /\ LET message == Get(server.message)
           response == Response(message)
       IN server' = [HandleMessage(server, message) EXCEPT
                        !.response = response,
                        !.exit_handled = @ \/ message.method = "exit",
                        !.pc = IF IsNone(response) THEN "while" ELSE "send"]
    /\ UNCHANGED NotServing

\* self._send_message(response)
SendMessageStep ==
    /\ server.pc = "send"
    /\ server' = [server EXCEPT !.sent = @ + 1, !.pc = "while"]
    /\ UNCHANGED NotServing

\* Ctrl-C while start() runs: except KeyboardInterrupt, then finally
KeyboardInterrupt ==
    /\ server.pc \in {"while", "read", "handle", "send"}
    /\ server' = [server EXCEPT !.running = FALSE, !.pc = "returned"]
    /\ UNCHANGED NotServing

\* the steps start() takes by itself
ServerStep ==
    \/ WhileTest
    \/ ReadMessageStep
    \/ HandleMessageStep
    \/ SendMessageStep

LspNext ==
    \/ StartOp
    \/ WhileTest
    \/ ReadMessageStep
    \/ HandleMessageStep
    \/ SendMessageStep
    \/ KeyboardInterrupt

LspSpec == LspInit /\ [][LspNext]_vars

\* start() runs on: a step of the loop that can be taken is taken; nobody has
\* to press Ctrl-C
LspFairSpec == LspSpec /\ WF_vars(ServerStep)

\* ------------------------------------------------------------ the claims
Elements == IF IsNone(result) THEN << >> ELSE Get(result).elements

\* every element the caller can reach from result: the top-level elements
\* and the methods of the classes
AllElements ==
    Range(Elements)
        \cup UNION {Range(Elements[i].methods) : i \in 1..Len(Elements)}

Analysed(e) == e.analysed

HasDuplicates(seq) == \E i, j \in 1..Len(seq) : i # j /\ seq[i] = seq[j]

\* what idempotence is about: the tags, the score and the inferred types
AnalysisView(e) ==
    <<e.detected_patterns, e.complexity_score, e.metadata.inferred_types,
      [k \in 1..Len(e.parameters) |-> e.parameters[k].inferred_type]>>

ResultView(elements) ==
    [i \in 1..Len(elements) |->
        <<AnalysisView(elements[i]),
          [j \in 1..Len(elements[i].methods) |-> AnalysisView(elements[i].methods[j])]>>]

\* C1: a second analyze_element on the same unchanged element, by the same
\* analyzer, leaves detected_patterns, complexity_score and the inferred
\* types as the first left them.  (A step that keeps lastOp at an
\* analyze_element is that call made again.)
C1_SecondAnalysisSame ==
    [][(lastOp.op = "analyze_element" /\ lastOp' = lastOp /\ ~IsNone(result))
          => ResultView(Get(result').elements) = ResultView(Get(result).elements)]_vars

\* the god-class tag is there from 21 methods on and is not there at 20
GodClassTagAsClaimed(e) ==
    /\ Len(e.methods) >= 21 => "anti_pattern_god_class" \in Range(e.detected_patterns)
    /\ Len(e.methods) = 20 => "anti_pattern_god_class" \notin Range(e.detected_patterns)

\* C2: a class analysed once after parsing, with pattern detection on, has the
\* god-class tag if it has 21 or more methods and has it not if it has 20.
\* (The step is the first analyze_element on a class parse_file returned.)
C2_GodClassAfterOneAnalysis ==
    [][\A i \in 1..Len(Elements) :
          (/\ lastOp'.op = "analyze_element" /\ lastOp'.path = <<i>>
           /\ Elements[i].element_type = CLASS
           /\ ~Elements[i].analysed
           /\ analyzer.detect_patterns)
              => GodClassTagAsClaimed(Get(result').elements[i])]_vars

\* C3: no element's detected_patterns holds a tag twice.
C3_NoDuplicateTags ==
    \A e \in AllElements : ~HasDuplicates(e.detected_patterns)

\* max(0, min(0.9, 0.5 + 0.1*D) - 0.15*A), in hundredths
ConfidenceFormula(D, A) ==
    LET capped == IF 50 + 10 * D > 90 THEN 90 ELSE 50 + 10 * D
    IN  IF capped - 15 * A < 0 THEN 0 ELSE capped - 15 * A

TagCount(e, Test(_)) == Len(SelectSeq(e.detected_patterns, Test))

\* C4 as stated: every element analysed with pattern detection on has
\* pattern_confidence = max(0, min(0.9, 0.5 + 0.1*D) - 0.15*A), also for D = A = 0.
C4_ConfidenceFormulaAlways ==
    \A e \in AllElements :
        (Analysed(e) /\ analyzer.detect_patterns)
            => e.pattern_confidence
                   = ConfidenceFormula(TagCount(e, IsDesignPattern),
                                       TagCount(e, IsAntiPattern))

\* C4 amended: an element analysed with pattern detection on has the
\* confidence of the formula if at least one tag was detected for it, and
\* keeps the confidence 0.0 it was parsed with if none was.
C4_ConfidenceFormulaWhenTagged ==
    \A e \in AllElements :
        (Analysed(e) /\ analyzer.detect_patterns)
            => e.pattern_confidence
                   = IF e.detected_patterns # << >>
                     THEN ConfidenceFormula(TagCount(e, IsDesignPattern),
                                            TagCount(e, IsAntiPattern))
                     ELSE 0

\* an analysed element with design patterns and an anti-pattern, and the
\* confidence 0.6 - 0.15
C4_Witness ==
    \E e \in AllElements :
        /\ Analysed(e) /\ analyzer.detect_patterns
        /\ TagCount(e, IsDesignPattern) >= 1
        /\ TagCount(e, IsAntiPattern) >= 1
        /\ e.pattern_confidence = 45

\* C5: a function or method analysed with pattern detection on, more than 2
\* of whose parameters other than self/cls are untyped, has the
\* add-type-hints suggestion, whatever tags were detected.
C5_TypeHintSuggestion ==
    \A e \in AllElements :
        (/\ Analysed(e) /\ analyzer.detect_patterns
         /\ e.element_type \in {FUNCTION, METHOD}
         /\ Len(SelectSeq(e.parameters, UntypedParam)) > 2)
            => \E k \in 1..Len(e.suggestions) :
                   e.suggestions[k].text = "Add type hints to parameters"

\* C6: pattern_confidence is in [0, 1] and complexity_score is absent or >= 1,
\* after every sequence of parse and analysis operations.
C6_ConfidenceAndComplexityRange ==
    \A e \in AllElements :
        /\ e.pattern_confidence >= 0 /\ e.pattern_confidence <= 100
        /\ IsNone(e.complexity_score) \/ Get(e.complexity_score) >= 1

\* an analysed function with a complexity score and a confidence above 0
C6_Witness ==
    \E e \in AllElements :
        /\ Analysed(e)
        /\ ~IsNone(e.complexity_score) /\ Get(e.complexity_score) > HighComplexity
        /\ e.pattern_confidence > 0

\* C7: when analyze_file returns, with complexity calculation on, every
\* function and every method reachable from the result has a complexity_score.
C7_AnalyzeFileVisitsMethods ==
    (lastOp.op = "analyze_file" /\ analyzer.calculate_complexity)
        => \A e \in AllElements :
               e.element_type \in {FUNCTION, METHOD} => ~IsNone(e.complexity_score)

\* C8: after an analysis with type inference on, every parameter without a
\* declared type has an inferred type and a confidence level, and its
\* effective_type is that inferred type.
C8_UntypedParametersInferred ==
    \A e \in AllElements :
        (Analysed(e) /\ analyzer.infer_types)
            => \A k \in 1..Len(e.parameters) :
                   IsNone(e.parameters[k].type_hint)
                       => /\ ~IsNone(e.parameters[k].inferred_type)
                          /\ ~IsNone(e.parameters[k].type_inference_confidence)
                          /\ Get(e.parameters[k].type_inference_confidence)
                                 \in {"high", "medium", "low", "unknown"}
                          /\ effective_type(e.parameters[k])
                                 = e.parameters[k].inferred_type

\* the module-level functions and classes parse_file keeps, in file order
KeptNode(node) ==
    /\ node.node \in {"FunctionDef", "AsyncFunctionDef", "ClassDef"}
    /\ ~UnparseRaises(node)
    /\ parsed_private \/ node.name[1] # "_"
KeptNodes == SelectSeq(file, KeptNode)

\* C9: a result parsed with extract_private unset holds no private element,
\* neither in elements nor among the methods of a class, and the public
\* methods of its classes are all there.
C9_NoPrivateElements ==
    (~IsNone(result) /\ ~parsed_private)
        => /\ \A e \in AllElements : e.name[1] # "_"
           /\ Len(Elements) = Len(KeptNodes)
           /\ \A i \in 1..Len(Elements) :
                KeptNodes[i].node = "ClassDef"
                    => \A j \in 1..Len(KeptNodes[i].body) :
                          KeptNodes[i].body[j].name[1] # "_"
                              => \E m \in Range(Elements[i].methods) :
                                    m.name = KeptNodes[i].body[j].name

ParseErrors == IF IsNone(result) THEN << >> ELSE Get(result).parse_errors

IsDefinition(node) == node.node \in {"FunctionDef", "AsyncFunctionDef", "ClassDef"}

\* C11: a top-level function or class whose conversion fails is recorded in
\* parse_errors, and every other top-level function or class of the file
\* (that the visibility filter admits) is in elements all the same.
C11_FailureRecordedSiblingsKept ==
    ~IsNone(result)
        => \A i \in 1..Len(file) :
              IsDefinition(file[i])
                  => IF UnparseRaises(file[i])
                     THEN \E k \in 1..Len(ParseErrors) :
                              ParseErrors[k].name = file[i].name
                     ELSE (parsed_private \/ file[i].name[1] # "_")
                              => \E k \in 1..Len(Elements) :
                                     Elements[k].name = file[i].name

\* a file whose first definition fails and whose second is extracted
C11_Witness ==
    /\ Len(file) = 2 /\ IsDefinition(file[1]) /\ UnparseRaises(file[1])
    /\ Len(ParseErrors) = 1 /\ ParseErrors[1].name = file[1].name
    /\ Len(Elements) = 1 /\ Elements[1].name = file[2].name

\* C12 as stated: the only exception parse_file, parse_string, analyze_file
\* and analyze_element let through to the caller is the syntax error.
C12_OnlySyntaxErrorEscapes ==
    raised \in {None, Some("SyntaxError")}

\* C12 amended: the exceptions the entry points let through are those of the
\* file as a whole: the syntax error, FileNotFoundError for a file that is not
\* there, the error of reading or decoding it.  A failure in one element or
\* in one visitor never leaves them: it ends as a parse_errors entry or as
\* the visitor's default.
C12_OnlyWholeFileErrorsEscape ==
    /\ source = "ok" => IsNone(raised)
    /\ ~IsNone(raised)
          => /\ lastOp.op \in {"parse_file", "analyze_file"}
             /\ Get(raised) = (CASE source = "syntax_error" -> "SyntaxError"
                                 [] source = "missing" -> "FileNotFoundError"
                                 [] source = "undecodable" -> "UnicodeDecodeError")

\* analyze_file has returned a result for a file one of whose definitions
\* could not be converted
C12_Witness ==
    /\ lastOp.op = "analyze_file" /\ IsNone(raised)
    /\ ParseErrors # << >> /\ Elements # << >>

\* pattern detection fails on e: the comparison of its method count raises
DetectionFails(e) ==
    e.element_type = CLASS /\ "method_count" \in e.metadata.malformed

\* C13: when a failure occurs during the pattern detection of an element, the
\* list detection yields for it is empty.
C13_EmptyListOnFailure ==
    \A e \in AllElements : DetectionFails(e) => DetectPatterns(e) = << >>

\* the function and method elements of result, each with the node it was
\* parsed from
ParsedFunctions ==
    {<<Elements[i], KeptNodes[i]>> :
        i \in {k \in 1..Len(Elements) : Elements[k].element_type = FUNCTION}}
    \cup UNION {{<<Elements[i].methods[j], KeptNodes[i].body[j]>> :
                    j \in 1..Len(Elements[i].methods)} :
                 i \in {k \in 1..Len(Elements) : Elements[k].element_type = CLASS}}

\* the declared parameters as <<name, default>>: positional ones with the N
\* defaults on the last N of them, *args, keyword-only ones each with its own
\* default, **kwargs
DeclaredParameters(args) ==
    LET pos == args.posonlyargs \o args.args
        first_default == Len(pos) - Len(args.defaults)
    IN  [k \in 1..Len(pos) |->
            <<pos[k].arg,
              IF k > first_default THEN Some(args.defaults[k - first_default])
              ELSE None>>]
        \o (IF IsNone(args.vararg) THEN << >> ELSE <<<<Get(args.vararg).arg, None>>>>)
        \o [k \in 1..Len(args.kwonlyargs) |->
               <<args.kwonlyargs[k].arg, args.kw_defaults[k]>>]
        \o (IF IsNone(args.kwarg) THEN << >> ELSE <<<<Get(args.kwarg).arg, None>>>>)

\* C15: parameters lists the positional parameters, *args, the keyword-only
\* parameters and **kwargs in the order of the declaration; N positional
\* defaults are those of the last N positional parameters and a keyword-only
\* default is that of the parameter it was written for.
C15_ParametersInDeclarationOrder ==
    \A pair \in ParsedFunctions :
        [k \in 1..Len(pair[1].parameters) |->
            <<pair[1].parameters[k].name, pair[1].parameters[k].default_value>>]
          = DeclaredParameters(pair[2].args)

\* the exception names of the raise statements that name one by a bare name
\* or a constructor call, at the places of stmts
RaisedNames(stmts) ==
    {stmts[k].name : k \in {i \in 1..Len(stmts) :
                              stmts[i].form \in {"name", "call_name", "call_attr"}}}

\* raises holds each name of stmts once, ordered by where each name comes
\* first under Earlier
EachOnceInOrder(raises, stmts, Earlier(_, _)) ==
    LET Occurrences(name) == {k \in 1..Len(stmts) :
                                 /\ stmts[k].name = name
                                 /\ stmts[k].form \in {"name", "call_name", "call_attr"}}
        First(name) == CHOOSE k \in Occurrences(name) :
                           \A j \in Occurrences(name) : j = k \/ Earlier(k, j)
    IN  /\ Range(raises) = RaisedNames(stmts)
        /\ \A i, j \in 1..Len(raises) : i # j => raises[i] # raises[j]
        /\ \A i, j \in 1..Len(raises) :
              i < j => Earlier(First(raises[i]), First(raises[j]))

\* C16 as stated: raises holds each exception name raised in the body once, in
\* the order in which the names come first in the text of the body.
C16_ExceptionsOnceInTextOrder ==
    \A pair \in ParsedFunctions :
        LET stmts == pair[2].body.raise_stmts
            Earlier(a, b) == a < b
        IN  EachOnceInOrder(pair[1].raises, stmts, Earlier)

\* C16 amended: raises holds each exception name raised by a bare name or a
\* constructor call once, in the order in which the breadth-first walk of the
\* function meets the names first: a raise statement nearer the top level of
\* the body comes before a more deeply nested one, whatever their order in
\* the text; statements of one depth come in the order of the text.
C16_ExceptionsOnceInWalkOrder ==
    \A pair \in ParsedFunctions :
        LET stmts == pair[2].body.raise_stmts
            Earlier(a, b) == \/ stmts[a].depth < stmts[b].depth
                             \/ stmts[a].depth = stmts[b].depth /\ a < b
        IN  EachOnceInOrder(pair[1].raises, stmts, Earlier)

\* a function that raises ValueError in a block and again at the top of its
\* body, and TypeError in between: TypeError comes first in raises
C16_Witness ==
    \E pair \in ParsedFunctions :
        /\ Len(pair[2].body.raise_stmts) = 3
        /\ pair[2].body.raise_stmts[1].name = "ValueError"
        /\ pair[1].raises = <<"TypeError", "ValueError">>

\* C14: for a file whose path holds none of the source-root markers, the
\* module path is the bare file stem, with no directory in it.
C14_BareStemWithoutMarkers ==
    (call.fn = "_get_module_path" /\ ~IsNone(returned))
        => LET parts == call.file_path
               name == parts[Len(parts)]
           IN  (\A i \in 1..Len(parts) : parts[i] \notin {s_src, s_lib, s_python})
                   => Get(returned) = (IF EndsWith(name, s_dot_py)
                                       THEN SubSeq(name, 1, Len(name) - 3)
                                       ELSE name)

\* the infer_param_type call that has returned
ParamReturned == call.fn = "infer_param_type" /\ ~IsNone(returned)

\* the strategies of infer_param_type that succeed on the call
ByDefault ==
    ~IsNone(call.default) /\ InferFromExpression(Get(call.default)).confidence # UNKNOWN
ByTypeGuard ==
    /\ ~IsNone(call.func_body)
    /\ ~IsNone(InferFromIsinstance(call.param, Get(call.func_body).isinstance_calls))
ByUsage ==
    /\ ~IsNone(call.func_body)
    /\ InferFromUsage(call.param, Get(call.func_body)).confidence # UNKNOWN

SameType(a, b) ==
    /\ a.type_string = b.type_string /\ a.confidence = b.confidence
    /\ a.alternatives = b.alternatives

\* the body's only use of the parameter is .append(...)
OnlyAppend ==
    /\ ~IsNone(call.func_body)
    /\ LET b == Get(call.func_body)
       IN  /\ {a \in b.attributes : a.value = call.param}
                 = {AttributeOn(call.param, "append")}
           /\ \A i \in 1..Len(b.isinstance_calls) : b.isinstance_calls[i].arg # call.param
           /\ \A o \in b.binops : o.left # Some(call.param) /\ o.right # Some(call.param)
           /\ call.param \notin b.subscripts

\* C17: infer_param_type returns the result of the first strategy that
\* succeeds, in the order default value, type guard, usage, naming
\* convention; a parameter without default whose only use in the body is
\* .append(...) is list at MEDIUM confidence whatever its name
C17_FirstSuccessfulStrategyWins ==
    ParamReturned =>
        LET r == Get(returned)
        IN  /\ ByDefault => SameType(r, InferFromExpression(Get(call.default)))
            /\ ~ByDefault /\ ByTypeGuard =>
                  SameType(r, Get(InferFromIsinstance(call.param,
                                      Get(call.func_body).isinstance_calls)))
            /\ ~ByDefault /\ ~ByTypeGuard /\ ByUsage =>
                  SameType(r, InferFromUsage(call.param, Get(call.func_body)))
            /\ ~ByDefault /\ ~ByTypeGuard /\ ~ByUsage =>
                  SameType(r, InferFromName(call.param))
            /\ IsNone(call.default) /\ OnlyAppend =>
                  r.type_string = t_list /\ r.confidence = MEDIUM

\* the usage scan has overridden a naming convention that says int
C17_Witness ==
    /\ ParamReturned /\ IsNone(call.default) /\ OnlyAppend
    /\ call.param = n_user_id
    /\ InferFromName(call.param).type_string = t_int
    /\ Get(returned).type_string = t_list /\ Get(returned).confidence = MEDIUM
    /\ Get(returned).source = "list_methods_used"

\* only the naming convention applies to the call
OnlyNaming == ParamReturned /\ ~ByDefault /\ ~ByTypeGuard /\ ~ByUsage

\* names that match none of the naming rules
NoRuleNames == {n_x, n_value, n_obj}

\* C18: when only the naming convention applies, config, settings and the
\* names ending in _dict are dict at LOW confidence, the names ending in
\* _id are int at LOW confidence, and a name that matches no rule is Any at
\* UNKNOWN confidence
C18_NamingFallback ==
    OnlyNaming =>
        LET r == Get(returned)
        IN  /\ call.param \in {n_config, n_settings} \/ EndsWith(call.param, x__dict) =>
                  r.type_string = t_dict /\ r.confidence = LOW
            /\ EndsWith(call.param, x__id) => r.type_string = t_int /\ r.confidence = LOW
            /\ call.param \in NoRuleNames =>
                  r.type_string = t_Any /\ r.confidence = UNKNOWN

\* the infer_return_type call that has returned
ReturnReturned == call.fn = "infer_return_type" /\ ~IsNone(returned)

\* the return statements of the call that have a value
ValuedReturns ==
    SelectSeq(call.func_node.returns, LAMBDA v : ~IsNone(v))

\* None and exactly one other type are returned
OptionalCase ==
    /\ t_None \in UniqueTypes(call.func_node)
    /\ Cardinality(UniqueTypes(call.func_node)) = 2
NonNoneType == CHOOSE t \in UniqueTypes(call.func_node) : t # t_None

\* expressions that build a dict
IsDictExpr(e) ==
    \/ e.kind \in {"Dict", "DictComp"}
    \/ e.kind = "Call" /\ e.func_name = Some("dict")

\* the function returns either a dict or None: both occur, nothing else
ReturnsDictOrNone ==
    /\ \A i \in 1..Len(ValuedReturns) :
          IsDictExpr(Get(ValuedReturns[i])) \/ Get(ValuedReturns[i]) = Constant("None")
    /\ \E i \in 1..Len(ValuedReturns) : IsDictExpr(Get(ValuedReturns[i]))
    /\ \E i \in 1..Len(ValuedReturns) : Get(ValuedReturns[i]) = Constant("None")

\* the result is "T | None" at MEDIUM confidence with T the only alternative
IsOptionalOf(r, T) ==
    /\ r.type_string = T \o t_bar_None
    /\ r.confidence = MEDIUM
    /\ r.alternatives = <<T>>

t_dict_str_int == t_dict_open \o t_str \o t_comma \o t_int \o t_close

C20_NumericWidening ==
    ReturnReturned /\ UniqueTypes(call.func_node) = {t_int, t_float} =>
        /\ Get(returned).type_string = t_float
        /\ Get(returned).confidence = MEDIUM
        /\ ~Contains(Get(returned).type_string, t_bar)
        /\ Get(returned).alternatives = << >>

\* return 1 in one branch and a float in the other, the float being the
\* value of an arithmetic expression
C20_Witness ==
    /\ ReturnReturned
    /\ call.func_node.returns
          = <<Some(Constant("int")), Some(BinOp(Constant("int"), "Div", Constant("float")))>>
    /\ UniqueTypes(call.func_node) = {t_int, t_float}
    /\ Get(returned).type_string = t_float
    /\ Get(returned).source = "numeric_union"

\* the call to the inference engine that has ended, by a return or by an
\* exception
InferenceCalls == {"infer_from_usage", "infer_param_type", "infer_return_type"}
InferenceEnded == call.fn \in InferenceCalls /\ (~IsNone(returned) \/ ~IsNone(raised))

\* C21: every call to the inference engine returns a type whose
\* confidence is HIGH, MEDIUM, LOW or UNKNOWN and never raises; an
\* expression of an unrecognised shape gives Any at UNKNOWN confidence
C21_InferenceNeverRaises ==
    InferenceEnded =>
        /\ IsNone(raised)
        /\ ~IsNone(returned)
        /\ Get(returned).confidence \in {HIGH, MEDIUM, LOW, UNKNOWN}
        /\ call.fn = "infer_from_usage" /\ call.node = OtherExpr =>
              Get(returned).type_string = t_Any /\ Get(returned).confidence = UNKNOWN

\* the distinct numeric literals of the element's text other than 0, 1, 2
\* (-1 is the literal 1 under a minus sign)
DistinctLiterals(e) ==
    Range(e.source_code.literals) \ {DigitText(0), DigitText(1), DigitText(2)}

\* C22: a function or method is tagged magic numbers exactly when its body
\* holds more than 3 distinct numeric literals other than 0, 1, 2 and -1
C22_MagicNumbersDistinctLiterals ==
    \A e \in AllElements :
        Analysed(e) /\ analyzer.detect_patterns /\ e.element_type \in {FUNCTION, METHOD}
            /\ ~DetectionFails(e) =>
                ("anti_pattern_magic_numbers" \in Range(e.detected_patterns)
                    <=> Cardinality(DistinctLiterals(e)) > MagicNumberCount)

AllEnabled == [calculate_complexity |-> TRUE, infer_types |-> TRUE, detect_patterns |-> TRUE]

\* what the pattern detection writes
PatternFields(e) == <<e.detected_patterns, e.pattern_confidence, e.suggestions>>

\* a disabled visitor has written nothing in the call that made after of before
DisabledWriteNothing(before, after) ==
    /\ ~analyzer.detect_patterns => PatternFields(after) = PatternFields(before)
    /\ ~analyzer.calculate_complexity => after.complexity_score = before.complexity_score
    /\ ~analyzer.infer_types =>
          after.metadata.inferred_types = before.metadata.inferred_types

\* the complexity and the type inference, when enabled, have written what
\* they write when all visitors are enabled
ScoreAndTypesAsAllEnabled(before, after) ==
    LET all == AnalyzeElement(AllEnabled, before)
    IN  /\ analyzer.calculate_complexity => after.complexity_score = all.complexity_score
        /\ analyzer.infer_types =>
              after.metadata.inferred_types = all.metadata.inferred_types

\* the pattern detection, when enabled, has written what it writes when all
\* visitors are enabled
PatternsAsAllEnabled(before, after) ==
    analyzer.detect_patterns =>
        PatternFields(after) = PatternFields(AnalyzeElement(AllEnabled, before))

\* the same, unless the complexity calculation is disabled and would have
\* led to the high-complexity tag
PatternsAsAllEnabledButHighComplexity(before, after) ==
    LET all == AnalyzeElement(AllEnabled, before)
    IN  /\ analyzer.detect_patterns
        /\ \/ analyzer.calculate_complexity
           \/ "anti_pattern_high_complexity" \notin Range(all.detected_patterns)
        => PatternFields(after) = PatternFields(all)

\* P(before, after) for the element the step's analyze_element was called on
OnAnalysedElement(P(_, _)) ==
    /\ \A i \in 1..Len(Elements) :
          lastOp'.op = "analyze_element" /\ lastOp'.path = <<i>>
              => P(Elements[i], Get(result').elements[i])
    /\ \A i \in 1..Len(Elements) : \A j \in 1..Len(Elements[i].methods) :
          lastOp'.op = "analyze_element" /\ lastOp'.path = <<i, j>>
              => P(Elements[i].methods[j], Get(result').elements[i].methods[j])

C23_AsStated(before, after) ==
    /\ DisabledWriteNothing(before, after)
    /\ ScoreAndTypesAsAllEnabled(before, after)
    /\ PatternsAsAllEnabled(before, after)

C23_AsAmended(before, after) ==
    /\ DisabledWriteNothing(before, after)
    /\ ScoreAndTypesAsAllEnabled(before, after)
    /\ PatternsAsAllEnabledButHighComplexity(before, after)

\* C23: a visitor disabled by its flag writes nothing in analyze_element
\* (pattern detection: detected_patterns, pattern_confidence, suggestions;
\* complexity: complexity_score; type inference: the inferred types), and
\* the fields the enabled visitors write are the same as when all visitors
\* are enabled
C23_DisabledVisitorsOmissible == [][OnAnalysedElement(C23_AsStated)]_vars

\* C23, made precise: the fields of the enabled visitors are the same as
\* with all visitors enabled, except that the pattern detection reads the
\* complexity score: with the complexity calculation disabled a function
\* that would score above the threshold does not get the high-complexity
\* tag, and the confidence and the suggestions follow the tags
C23_DisabledVisitorsOmissibleButScore == [][OnAnalysedElement(C23_AsAmended)]_vars

\* a function scoring above the threshold, analysed with the complexity
\* calculation disabled and the pattern detection enabled: it has tags, and
\* the high-complexity tag is not one of them
C23_Witness ==
    /\ ~analyzer.calculate_complexity /\ analyzer.detect_patterns
    /\ \E e \in AllElements :
          /\ Analysed(e) /\ e.element_type = FUNCTION
          /\ CalculateComplexity(e.source_code) > HighComplexity
          /\ IsNone(e.complexity_score)
          /\ e.detected_patterns # << >>
          /\ "anti_pattern_high_complexity" \notin Range(e.detected_patterns)
          /\ "anti_pattern_high_complexity"
                 \in Range(AnalyzeElement(AllEnabled, e).detected_patterns)

HasHighComplexityTag(e) == "anti_pattern_high_complexity" \in Range(e.detected_patterns)

\* C24: in one analyze_element call with the complexity calculation and the
\* pattern detection enabled the score is computed before the detection
\* reads it, so a function or method whose complexity exceeds 15 has the
\* high-complexity tag after that call; an element for which no score has
\* been computed does not have the tag
C24_ScoreBeforeDetection ==
    \A e \in AllElements :
        /\ (/\ Analysed(e) /\ e.element_type \in {FUNCTION, METHOD}
            /\ analyzer.calculate_complexity /\ analyzer.detect_patterns
            /\ CalculateComplexity(e.source_code) > HighComplexity)
              => /\ e.complexity_score = Some(CalculateComplexity(e.source_code))
                 /\ HasHighComplexityTag(e)
        /\ IsNone(e.complexity_score) => ~HasHighComplexityTag(e)

\* the first analyze_element on a parsed function that scores above the
\* threshold has just returned, and the tag is there
C24_Witness ==
    /\ lastOp = Op("analyze_element", <<1>>)
    /\ analyzer.calculate_complexity /\ analyzer.detect_patterns
    /\ Elements[1].element_type = FUNCTION
    /\ Elements[1].complexity_score = Some(HighComplexity + 1)
    /\ HasHighComplexityTag(Elements[1])

\* the generate_for_file call that has returned, with overwrite_existing
\* off and no generation failing
GeneratedWithoutOverwrite ==
    /\ call.fn = "generate_for_file" /\ ~IsNone(returned)
    /\ ~call.overwrite_existing /\ call.failing = {}

\* the elements the parser extracted for the call
Extracted == ParseFile(call.file_path, call.include_private).elements

\* a docstring has been produced for the element
GeneratedFor(e) == GeneratedDocstring(e) \in Range(Get(returned))

\* C25: with overwrite_existing off and no generation failing,
\* generate_for_file produces a docstring for an extracted top-level
\* element or public method exactly when its docstring is absent; a present
\* docstring, empty or blank included, counts as documentation; the methods
\* of a skipped documented class are each considered all the same
C25_GeneratedIffUndocumented ==
    GeneratedWithoutOverwrite =>
        \A i \in 1..Len(Extracted) :
            /\ GeneratedFor(Extracted[i]) <=> IsNone(Extracted[i].docstring)
            /\ \A j \in 1..Len(Extracted[i].methods) :
                  Extracted[i].methods[j].is_public =>
                      (GeneratedFor(Extracted[i].methods[j])
                          <=> IsNone(Extracted[i].methods[j].docstring))

\* a class with a blank docstring has been skipped, its method run, whose
\* docstring is empty, too, and its undocumented method execute has got a
\* docstring
C25_Witness ==
    /\ GeneratedWithoutOverwrite
    /\ Len(call.file_path) = 1 /\ call.file_path[1].node = "ClassDef"
    /\ call.file_path[1].docstring = Some(<<" ", " ">>)
    /\ call.file_path[1].body[1].docstring = Some(<< >>)
    /\ call.file_path[1].body[2].docstring = None
    /\ Extracted[1].docstring = Some(<< >>)
    /\ ~GeneratedFor(Extracted[1])
    /\ ~GeneratedFor(Extracted[1].methods[1])
    /\ GeneratedFor(Extracted[1].methods[2])


\* C26: after backup_file(f) with dry-run off, any modification of f followed
\* by restore_backup(f) leaves f with exactly the content it had when
\* backup_file was called.
C26_RestoreGivesBackContent ==
    (~IsNone(since_backup) /\ Get(since_backup).restored)
        => files[Get(since_backup).path] = Some(Get(since_backup).content)

\* f was backed up, modified to something else, and restored
C26_Witness ==
    /\ ~IsNone(since_backup)
    /\ Get(since_backup).restored /\ Get(since_backup).modified
    /\ lastOp = Op("restore_backup", Get(since_backup).path)
    /\ ~file_ops.dry_run

FileOperationsCalls == {"backup_file", "restore_backup", "remove_backup", "insert_docstring"}

\* C27: with dry_run on, no FileOperations call (backup_file, restore_backup,
\* remove_backup, insert_docstring) creates, modifies or deletes any file.
C27_DryRunChangesNoFile ==
    [][(file_ops.dry_run /\ lastOp'.op \in FileOperationsCalls) => files' = files]_vars

\* in dry-run, insert_docstring said it modified the file and remove_backup
\* found a backup: the calls that write when dry_run is off
C27_Witness ==
    /\ file_ops.dry_run
    /\ \/ lastOp.op = "insert_docstring" /\ returned = Some(TRUE)
       \/ lastOp.op = "remove_backup" /\ Exists(files, BackupPath(file_ops, lastOp.path))


\* the names a signature declares, of every kind
DeclaredNames(args) ==
    {args.posonlyargs[k].arg : k \in 1..Len(args.posonlyargs)}
        \cup {args.args[k].arg : k \in 1..Len(args.args)}
        \cup (IF IsNone(args.vararg) THEN {} ELSE {Get(args.vararg).arg})
        \cup {args.kwonlyargs[k].arg : k \in 1..Len(args.kwonlyargs)}
        \cup (IF IsNone(args.kwarg) THEN {} ELSE {Get(args.kwarg).arg})

\* C28: every parameter declared in a function's signature, of every kind
\* (positional-only, positional, variadic, keyword-only, keyword-variadic),
\* appears exactly once in the parsed element's parameters.
C28_EveryDeclaredParameterOnce ==
    \A pair \in ParsedFunctions :
        \A name \in DeclaredNames(pair[2].args) :
            Cardinality({k \in 1..Len(pair[1].parameters) :
                            pair[1].parameters[k].name = name}) = 1


\* C29: after a class element is analysed, its metadata method_count equals the
\* number of methods defined directly in the class body (synchronous or
\* asynchronous, functions nested in methods not counted), which is the number
\* of method elements the parser attaches when private extraction is on.
C29_MethodCountIsDirectMethods ==
    \A i \in 1..Len(Elements) :
        (/\ Elements[i].element_type = CLASS
         /\ Analysed(Elements[i])
         /\ parsed_private
         /\ "method_count" \notin Elements[i].metadata.malformed)
            => Elements[i].metadata.method_count = Some(Len(Elements[i].methods))


\* C30: once the input stream of the LSP server reaches end-of-file, or once
\* an exit notification has been handled, start() eventually returns and
\* running is false afterwards; the read loop does not continue forever.
C30_StartReturns ==
    (server.at_eof \/ server.exit_handled)
        ~> [](server.pc = "returned" /\ ~server.running)

\* the half about the exit notification
C30_StartReturnsAfterExit ==
    server.exit_handled ~> [](server.pc = "returned" /\ ~server.running)

====
